---- MODULE Spec2Model ----
(***************************************************************************)
(* Model of the Kobo <-> Moon+ Reader position mapping of calibre-web:     *)
(* cps/book_analyzer.py (BookAnalyzer) and cps/moonreader_sync.py.         *)
(*                                                                         *)
(* Python strings are sequences of one-character strings, so that the      *)
(* parsing and formatting steps are computed, character by character, the  *)
(* way the code computes them.  Python floats are exact rationals <<n, d>> *)
(* (d > 0, lowest terms).  An Optional value is None (the empty tuple) or  *)
(* Some(v) (the one-element tuple holding v).                              *)
(***************************************************************************)
EXTENDS Integers, Sequences, FiniteSets, TLC

VARIABLES
    titles,        \* classifier: the chapter titles of the analysed EPUB
    mapping,       \* classifier: result of _build_part_chapter_mapping
    archive,       \* archive parser: the zip container analysed
    HAS_BEAUTIFULSOUP,  \* whether bs4 could be imported
    parsed,        \* archive parser: <<spine_order, manifest>> of _parse_opf
    toc_found,     \* archive parser: result of _find_toc_items
    structure,     \* archive parser: result of analyze_epub_structure
    epub_outcome,  \* archive: outcome of the call of analyze_epub_structure
    kepub_outcome, \* archive: outcome of the call of analyze_kepub_structure
    kepub,         \* span locator: the KEPUB container searched
    span_id,       \* span locator: the span id looked for
    progress_percent,  \* span locator: the reported progress, or None
    all_matches,   \* span locator: the occurrences _find_span_in_kepub collected
    span_info,     \* span locator: result of _find_span_in_kepub
    sync_book,     \* codec: the book synchronised, or None
    kobo_state,    \* codec: the KoboReadingState of the book, or None
    po_content,    \* codec: content of the Moon+ Reader position file, or None
    encoded,       \* codec: last call of kobo_to_moonreader_position
    decoded,       \* codec: last call of moonreader_to_kobo_position
    mapped,        \* codec: last call of map_kobo_position_to_epub
    trip,          \* codec: progress of the round trip of the initial position file
    calls,         \* codec: number of conversion calls made
    authenticated, \* sync: whether the user is authenticated with Google Drive
    naive_stamps,  \* sync: whether the database returns timezone-naive datetimes
    sync_call,     \* sync: last call of a synchronisation function
    drive_store,   \* drive: the folders and files of the user's Google Drive
    folder_name,   \* drive: folder_name of the user's credentials record, or None
    drive_call,    \* drive: last call made on the Google Drive
    search_html,   \* text search: the content of the chapter file searched
    search_target, \* text search: the text looked for
    search_result, \* text search: result of _search_text_in_html
    pc             \* position of the modelled call

classifyVars == <<titles, mapping>>
archiveVars == <<archive, parsed, toc_found, structure, epub_outcome, kepub_outcome>>
spanVars == <<kepub, span_id, progress_percent, all_matches, span_info>>

codecVars == <<sync_book, kobo_state, po_content, encoded, decoded, mapped, trip, calls>>

syncVars == <<authenticated, naive_stamps, sync_call>>

driveVars == <<drive_store, folder_name, drive_call>>

searchVars == <<search_html, search_target, search_result>>

vars == <<classifyVars, archiveVars, spanVars, codecVars, syncVars, driveVars, searchVars,
          HAS_BEAUTIFULSOUP, pc>>

None == <<>>
Some(v) == <<v>>
IsNone(x) == x = <<>>
Val(x) == x[1]

\* the result of a call: Return(value) or Raise(exception name)
Return(v) == [kind |-> "return", value |-> v]
Raise(e) == [kind |-> "raise", value |-> e]

-----------------------------------------------------------------------------
(* Characters and strings *)

UpperChars == <<"A","B","C","D","E","F","G","H","I","J","K","L","M",
                "N","O","P","Q","R","S","T","U","V","W","X","Y","Z">>
LowerChars == <<"a","b","c","d","e","f","g","h","i","j","k","l","m",
                "n","o","p","q","r","s","t","u","v","w","x","y","z">>
DigitChars == <<"0","1","2","3","4","5","6","7","8","9">>

IsDigit(c) == \E i \in 1..10 : DigitChars[i] = c
DigitVal(c) == (CHOOSE i \in 1..10 : DigitChars[i] = c) - 1
IsSpace(c) == c \in {" ", "\t", "\n", "\r"}

\* str.lower() on one character
LowerChar(c) ==
    IF \E i \in 1..26 : UpperChars[i] = c
    THEN LowerChars[CHOOSE i \in 1..26 : UpperChars[i] = c]
    ELSE c

\* str.lower()
Lower(s) == [i \in 1..Len(s) |-> LowerChar(s[i])]

\* str.strip(): drop leading and trailing whitespace
Strip(s) ==
    IF \A i \in 1..Len(s) : IsSpace(s[i]) THEN <<>>
    ELSE LET a == CHOOSE i \in 1..Len(s) :
                      ~IsSpace(s[i]) /\ \A j \in 1..(i-1) : IsSpace(s[j])
             b == CHOOSE i \in 1..Len(s) :
                      ~IsSpace(s[i]) /\ \A j \in (i+1)..Len(s) : IsSpace(s[j])
         IN  SubSeq(s, a, b)

\* s.startswith(p)
StartsWith(s, p) == Len(p) <= Len(s) /\ SubSeq(s, 1, Len(p)) = p

\* s.endswith(p)
EndsWith(s, p) == Len(p) <= Len(s) /\ SubSeq(s, Len(s) - Len(p) + 1, Len(s)) = p

\* p occurs in s at (1-based) index i
OccursAt(s, p, i) == i >= 1 /\ i + Len(p) - 1 <= Len(s) /\ SubSeq(s, i, i + Len(p) - 1) = p

\* p in s
Contains(s, p) == \E i \in 1..(Len(s) + 1) : OccursAt(s, p, i)

\* s.find(p) as a 0-based index, -1 when absent
Find(s, p) ==
    IF Contains(s, p)
    THEN (CHOOSE i \in 1..(Len(s) + 1) :
              OccursAt(s, p, i) /\ \A j \in 1..(i-1) : ~OccursAt(s, p, j)) - 1
    ELSE -1

\* the least element of a non-empty set of integers
Least(I) == CHOOSE i \in I : \A j \in I : i <= j

\* s.isdigit()
IsDigits(s) == Len(s) > 0 /\ \A i \in 1..Len(s) : IsDigit(s[i])

\* int(s) for a string of digits
RECURSIVE ToInt(_)
ToInt(s) == IF Len(s) = 0 THEN 0
            ELSE 10 * ToInt(SubSeq(s, 1, Len(s) - 1)) + DigitVal(s[Len(s)])

\* str.split(): the maximal runs of non-whitespace characters
RECURSIVE SplitWords(_)
SplitWords(s) ==
    LET t == Strip(s) IN
    IF Len(t) = 0 THEN <<>>
    ELSE IF \A i \in 1..Len(t) : ~IsSpace(t[i]) THEN <<t>>
    ELSE LET e == CHOOSE i \in 1..Len(t) :
                      IsSpace(t[i]) /\ \A j \in 1..(i-1) : ~IsSpace(t[j])
         IN  <<SubSeq(t, 1, e - 1)>> \o SplitWords(SubSeq(t, e, Len(t)))

-----------------------------------------------------------------------------
(* Part/Chapter classifier: BookAnalyzer._build_part_chapter_mapping *)

PartIndicators == << <<"p","a","r","t">>, <<"p","a","r","t","i","e">>,
                     <<"d","e","e","l">>, <<"t","e","i","l">>,
                     <<"b","o","o","k">>, <<"l","i","v","r","e">>,
                     <<"b","o","e","k">>, <<"b","u","c","h">> >>

\* _detect_part_structure: some title starts with a part indicator
DetectPartStructure(chapter_titles) ==
    \E k \in 1..Len(chapter_titles) :
        LET title_lower == Strip(Lower(chapter_titles[k])) IN
        /\ \E i \in 1..Len(PartIndicators) : Contains(title_lower, PartIndicators[i])
        /\ \E i \in 1..Len(PartIndicators) : StartsWith(title_lower, PartIndicators[i])

sPart == <<"p","a","r","t"," ">>
PartWords == << <<"o","n","e">>, <<"t","w","o">>, <<"t","h","r","e","e">> >>
PartDigits == << <<"1">>, <<"2">>, <<"3">> >>

\* _is_part_header
IsPartHeader(title) ==
    LET title_lower == Strip(Lower(title)) IN
    \/ \E i \in 1..3 : title_lower = sPart \o PartWords[i]
    \/ \E i \in 1..3 : title_lower = sPart \o PartDigits[i]
    \/ StartsWith(title_lower, sPart) /\ Len(SplitWords(title_lower)) = 2

\* mutant of ExtractPartNumber: only the spelled-out numbers are recognised
ExtractPartNumber_WordsOnly(title) ==
    LET title_lower == Strip(Lower(title)) IN
    IF \E i \in 1..3 : title_lower = sPart \o PartWords[i]
    THEN Some(CHOOSE i \in 1..3 : title_lower = sPart \o PartWords[i])
    ELSE None

\* _extract_part_number: None when the number is not recognised
ExtractPartNumber(title) ==
    LET title_lower == Strip(Lower(title)) IN
    IF \E i \in 1..3 : title_lower = sPart \o PartWords[i]
    THEN Some(CHOOSE i \in 1..3 : title_lower = sPart \o PartWords[i])
    ELSE IF \E i \in 1..3 : title_lower = sPart \o PartDigits[i]
    THEN Some(CHOOSE i \in 1..3 : title_lower = sPart \o PartDigits[i])
    ELSE None

\* the keys of the roman_numerals dict of _extract_chapter_number, in value order
RomanNumerals == << <<"i">>, <<"i","i">>, <<"i","i","i">>, <<"i","v">>, <<"v">>,
                    <<"v","i">>, <<"v","i","i">>, <<"v","i","i","i">>,
                    <<"i","x">>, <<"x">> >>

\* mutant of ExtractChapterNumber: the values of "iv" and "vi" are exchanged
ExtractChapterNumber_IvViSwapped(title) ==
    LET title_stripped == Strip(title)
        swap(i) == IF i = 4 THEN 6 ELSE IF i = 6 THEN 4 ELSE i
    IN
    IF \E i \in 1..Len(RomanNumerals) : Lower(title_stripped) = RomanNumerals[i]
    THEN Some(swap(CHOOSE i \in 1..Len(RomanNumerals) : Lower(title_stripped) = RomanNumerals[i]))
    ELSE IF IsDigits(title_stripped) THEN Some(ToInt(title_stripped))
    ELSE None

\* _extract_chapter_number: None when the title is no bare numeral
ExtractChapterNumber(title) ==
    LET title_stripped == Strip(title) IN
    IF \E i \in 1..Len(RomanNumerals) : Lower(title_stripped) = RomanNumerals[i]
    THEN Some(CHOOSE i \in 1..Len(RomanNumerals) : Lower(title_stripped) = RomanNumerals[i])
    ELSE IF IsDigits(title_stripped) THEN Some(ToInt(title_stripped))
    ELSE None

SkipWords == << <<"c","o","v","e","r">>, <<"t","i","t","l","e">>,
                <<"c","o","p","y","r","i","g","h","t">>,
                <<"c","o","n","t","e","n","t","s">>, <<"t","a","b","l","e">>,
                <<"t","o","c">>, <<"p","r","e","f","a","c","e">>,
                <<"f","o","r","e","w","o","r","d">> >>

\* the front/back matter test of _build_part_chapter_mapping
IsFrontMatter(title) ==
    \E i \in 1..Len(SkipWords) : Contains(Lower(title), SkipWords[i])

\* mutant of ClassifyStep: a front/back-matter entry advances chapter_in_part
ClassifyStep_FrontMatterCounts(st, raw_title, has_explicit_parts) ==
    LET title == Strip(raw_title)
        chapter_number == ExtractChapterNumber(title)
    IN
    IF IsPartHeader(title)
    THEN LET part_number == ExtractPartNumber(title)
             current_part == IF ~IsNone(part_number) THEN Val(part_number)
                                             ELSE st.part + 1
         IN  [part |-> current_part, chap |-> 1,
              map  |-> Append(st.map, [part |-> current_part, chapter |-> 0,
                                       is_part_header |-> TRUE,
                                       is_front_matter |-> FALSE])]
    ELSE IF ~IsNone(chapter_number)
    THEN LET reset == ~has_explicit_parts /\ Val(chapter_number) = 1 /\ st.chap > 1
             current_part == IF reset THEN st.part + 1 ELSE st.part
             chapter_in_part == IF reset THEN 1 ELSE Val(chapter_number)
         IN  [part |-> current_part, chap |-> chapter_in_part,
              map  |-> Append(st.map, [part |-> current_part, chapter |-> chapter_in_part,
                                       is_part_header |-> FALSE,
                                       is_front_matter |-> FALSE])]
    ELSE IF IsFrontMatter(title)
    THEN [part |-> st.part, chap |-> st.chap + 1,
          map  |-> Append(st.map, [part |-> 0, chapter |-> 0,
                                   is_part_header |-> FALSE,
                                   is_front_matter |-> TRUE])]
    ELSE [part |-> st.part, chap |-> st.chap + 1,
          map  |-> Append(st.map, [part |-> st.part, chapter |-> st.chap,
                                   is_part_header |-> FALSE,
                                   is_front_matter |-> FALSE])]

\* One iteration of the loop of _build_part_chapter_mapping over entry k.
\* st = [part, chap, map]: current_part, chapter_in_part and the mapping so far.
ClassifyStep(st, raw_title, has_explicit_parts) ==
    LET title == Strip(raw_title)
        chapter_number == ExtractChapterNumber(title)
    IN
    IF IsPartHeader(title)
    THEN LET part_number == ExtractPartNumber(title)
             current_part == IF ~IsNone(part_number) THEN Val(part_number)
                                             ELSE st.part + 1
         IN  [part |-> current_part, chap |-> 1,
              map  |-> Append(st.map, [part |-> current_part, chapter |-> 0,
                                       is_part_header |-> TRUE,
                                       is_front_matter |-> FALSE])]
    ELSE IF ~IsNone(chapter_number)
    THEN LET reset == ~has_explicit_parts /\ Val(chapter_number) = 1 /\ st.chap > 1
             current_part == IF reset THEN st.part + 1 ELSE st.part
             chapter_in_part == IF reset THEN 1 ELSE Val(chapter_number)
         IN  [part |-> current_part, chap |-> chapter_in_part,
              map  |-> Append(st.map, [part |-> current_part, chapter |-> chapter_in_part,
                                       is_part_header |-> FALSE,
                                       is_front_matter |-> FALSE])]
    ELSE IF IsFrontMatter(title)
    THEN [st EXCEPT !.map = Append(st.map, [part |-> 0, chapter |-> 0,
                                           is_part_header |-> FALSE,
                                           is_front_matter |-> TRUE])]
    ELSE [part |-> st.part, chap |-> st.chap + 1,
          map  |-> Append(st.map, [part |-> st.part, chapter |-> st.chap,
                                   is_part_header |-> FALSE,
                                   is_front_matter |-> FALSE])]

RECURSIVE ClassifyLoop(_, _, _)
ClassifyLoop(st, chapter_titles, has_explicit_parts) ==
    IF Len(chapter_titles) = 0 THEN st
    ELSE ClassifyLoop(ClassifyStep(st, Head(chapter_titles), has_explicit_parts),
                      Tail(chapter_titles), has_explicit_parts)

\* _build_part_chapter_mapping: entry k of the result is mapping[k-1] of the code
BuildPartChapterMapping(chapter_titles) ==
    ClassifyLoop([part |-> 1, chap |-> 1, map |-> <<>>], chapter_titles,
                 DetectPartStructure(chapter_titles)).map


-----------------------------------------------------------------------------
(* Archive Parser: zip container, package descriptor, table of contents.   *)
(*                                                                         *)
(* An archive is [readable, container, entries]: whether zipfile opens it, *)
(* the full-path attributes of the rootfile elements of                    *)
(* META-INF/container.xml (None when that entry is missing or malformed),  *)
(* and the entries [name, doc] in namelist order.  A document is what the  *)
(* XML/HTML parser makes of an entry:                                      *)
(*   [kind |-> "opf", wellformed, items, itemrefs]                         *)
(*   [kind |-> "ncx", wellformed, navPoints]                               *)
(*   [kind |-> "html", nav, text, spans]                                   *)
(***************************************************************************)

\* bool(x) of an Optional string: neither None nor empty
Truthy(x) == ~IsNone(x) /\ Len(Val(x)) > 0

\* str(n) for n >= 0
RECURSIVE FormatNat(_)
FormatNat(n) == IF n < 10 THEN <<DigitChars[n + 1]>>
                ELSE FormatNat(n \div 10) \o <<DigitChars[(n % 10) + 1]>>

\* str.rstrip('/')
RECURSIVE RStripSlash(_)
RStripSlash(path) == IF Len(path) > 0 /\ path[Len(path)] = "/"
                     THEN RStripSlash(SubSeq(path, 1, Len(path) - 1))
                     ELSE path

\* os.path.dirname
Dirname(path) ==
    IF \E i \in 1..Len(path) : path[i] = "/"
    THEN LET i == CHOOSE i \in 1..Len(path) :
                      path[i] = "/" /\ \A j \in (i+1)..Len(path) : path[j] # "/"
             head == SubSeq(path, 1, i)
         IN  IF \A j \in 1..i : head[j] = "/" THEN head ELSE RStripSlash(head)
    ELSE <<>>

\* os.path.join of two components
PathJoin(a, b) ==
    IF Len(b) > 0 /\ b[1] = "/" THEN b
    ELSE IF Len(a) = 0 \/ a[Len(a)] = "/" THEN a \o b
    ELSE a \o <<"/">> \o b

\* name in zip_file.namelist()
ZipHas(zip, name) == \E i \in 1..Len(zip.entries) : zip.entries[i].name = name

\* zip_file.read(name), for a name the archive holds
ZipRead(zip, name) ==
    zip.entries[CHOOSE i \in 1..Len(zip.entries) : zip.entries[i].name = name].doc

sDotOpf == <<".","o","p","f">>
sDotNcx == <<".","n","c","x">>
sNav == <<"n","a","v">>
sToc == <<"t","o","c">>
sChapterSp == <<"C","h","a","p","t","e","r"," ">>
sUnknown == <<"U","n","k","n","o","w","n">>

\* _find_opf_file: the first rootfile path of container.xml ending in .opf,
\* else the first entry name ending in .opf, else None
FindOpfFile(zip) ==
    LET fromContainer ==
            IF IsNone(zip.container) THEN {}
            ELSE {i \in 1..Len(Val(zip.container)) :
                      /\ Truthy(Val(zip.container)[i])
                      /\ EndsWith(Val(Val(zip.container)[i]), sDotOpf)}
        fromNames == {i \in 1..Len(zip.entries) : EndsWith(zip.entries[i].name, sDotOpf)}
        first(I) == CHOOSE i \in I : \A j \in I : i <= j
    IN
    IF fromContainer # {} THEN Some(Val(Val(zip.container)[first(fromContainer)]))
    ELSE IF fromNames # {} THEN Some(zip.entries[first(fromNames)].name)
    ELSE None

\* dict assignment manifest[id] = href on a dict kept as the sequence of its
\* <<key, value>> pairs in insertion order
DictPut(d, key, value) ==
    IF \E i \in 1..Len(d) : d[i][1] = key
    THEN [i \in 1..Len(d) |-> IF d[i][1] = key THEN <<key, value>> ELSE d[i]]
    ELSE Append(d, <<key, value>>)

\* key in d
DictHas(d, key) == \E i \in 1..Len(d) : d[i][1] = key

\* d[key]
DictGet(d, key) == d[CHOOSE i \in 1..Len(d) : d[i][1] = key][2]

RECURSIVE ParseManifest(_, _)
ParseManifest(items, manifest) ==
    IF Len(items) = 0 THEN manifest
    ELSE LET item == Head(items) IN
         ParseManifest(Tail(items),
                       IF Truthy(item.id) /\ Truthy(item.href)
                       THEN DictPut(manifest, Val(item.id), Val(item.href))
                       ELSE manifest)

RECURSIVE ParseSpine(_)
ParseSpine(itemrefs) ==
    IF Len(itemrefs) = 0 THEN <<>>
    ELSE (IF Truthy(Head(itemrefs)) THEN <<Val(Head(itemrefs))>> ELSE <<>>)
            \o ParseSpine(Tail(itemrefs))

\* mutant of ParseOpf: the ids of the manifest items are taken into the spine too
ParseOpf_ItemsInSpine(opf_content) ==
    IF opf_content.kind = "opf" /\ opf_content.wellformed
    THEN <<ParseSpine([i \in 1..Len(opf_content.items) |-> opf_content.items[i].id])
              \o ParseSpine(opf_content.itemrefs),
           ParseManifest(opf_content.items, <<>>)>>
    ELSE <<<<>>, <<>>>>

\* _parse_opf: <<spine_order, manifest>>; both empty when the XML does not parse
ParseOpf(opf_content) ==
    IF opf_content.kind = "opf" /\ opf_content.wellformed
    THEN <<ParseSpine(opf_content.itemrefs), ParseManifest(opf_content.items, <<>>)>>
    ELSE <<<<>>, <<>>>>

\* _parse_nav_html: the (title, href) of every anchor of the first <nav> element
\* that has both; nothing without BeautifulSoup
RECURSIVE NavAnchors(_)
NavAnchors(anchors) ==
    IF Len(anchors) = 0 THEN <<>>
    ELSE LET link == Head(anchors)
             title == Strip(link.text)
         IN  (IF Truthy(link.href) /\ Len(title) > 0
              THEN <<[title |-> title, href |-> Val(link.href)]>> ELSE <<>>)
                 \o NavAnchors(Tail(anchors))

ParseNavHtml(nav_content, has_bs4) ==
    IF ~has_bs4 THEN <<>>
    ELSE IF nav_content.kind = "html" /\ ~IsNone(nav_content.nav)
    THEN NavAnchors(Val(nav_content.nav))
    ELSE <<>>

\* the navPoint loop of _find_ncx_toc; a navPoint is [text, src], text being
\* None without a <text> element and Some(None) for an empty one
RECURSIVE NcxPoints(_)
NcxPoints(points) ==
    IF Len(points) = 0 THEN <<>>
    ELSE LET navpoint == Head(points)
             title == IF IsNone(navpoint.text) THEN Some(sUnknown) ELSE Val(navpoint.text)
             href == navpoint.src
         IN  (IF Truthy(title) /\ Truthy(href)
              THEN <<[title |-> Val(title), href |-> Val(href)]>> ELSE <<>>)
                 \o NcxPoints(Tail(points))

\* the NCX file as the archive holds it: under its manifest name, else under
\* dirname(opf_path)/name, else None
NcxPath(zip, opf_path, ncx_file) ==
    IF ZipHas(zip, ncx_file) THEN Some(ncx_file)
    ELSE IF ZipHas(zip, PathJoin(Dirname(opf_path), ncx_file))
    THEN Some(PathJoin(Dirname(opf_path), ncx_file))
    ELSE None

\* the entries of the NCX document; none when the XML does not parse
NcxEntries(ncx_content) ==
    IF ncx_content.kind = "ncx" /\ ncx_content.wellformed
    THEN NcxPoints(ncx_content.navPoints)
    ELSE <<>>

\* the entries of the NCX file at ncx_path
ReadNcx(zip, ncx_path) ==
    IF IsNone(ncx_path) THEN <<>> ELSE NcxEntries(ZipRead(zip, Val(ncx_path)))

\* mutant of FindNcxToc: the entries carry the path of their file under the
\* descriptor's directory instead of the href of the NCX
FindNcxToc_ArchivePaths(zip, manifest, opf_path) ==
    LET hits == {i \in 1..Len(manifest) : EndsWith(manifest[i][2], sDotNcx)}
        found == IF hits = {} THEN <<>>
                 ELSE ReadNcx(zip, NcxPath(zip, opf_path,
                                  manifest[CHOOSE i \in hits : \A j \in hits : i <= j][2]))
    IN  [i \in 1..Len(found) |->
            [found[i] EXCEPT !.href = PathJoin(Dirname(opf_path), found[i].href)]]

\* _find_ncx_toc
FindNcxToc(zip, manifest, opf_path) ==
    LET hits == {i \in 1..Len(manifest) : EndsWith(manifest[i][2], sDotNcx)} IN
    IF hits = {} THEN <<>>
    ELSE ReadNcx(zip, NcxPath(zip, opf_path,
                              manifest[CHOOSE i \in hits : \A j \in hits : i <= j][2]))

\* the entries of the navigation document nav_file, when the archive holds it
NavItems(zip, nav_file, has_bs4) ==
    IF ZipHas(zip, nav_file) THEN ParseNavHtml(ZipRead(zip, nav_file), has_bs4) ELSE <<>>

\* the entries of the navigation document when it has any, else those of the NCX
NavOrNcx(from_nav, zip, opf_path, manifest) ==
    IF Len(from_nav) > 0 THEN from_nav
    ELSE FindNcxToc(zip, manifest, opf_path)

\* _find_toc_items: the navigation document named by the first manifest href
\* holding "nav" or "toc", then the NCX
FindTocItems(zip, opf_path, manifest, has_bs4) ==
    LET hits == {i \in 1..Len(manifest) :
                    \/ Contains(Lower(manifest[i][2]), sNav)
                    \/ Contains(Lower(manifest[i][2]), sToc)}
    IN  NavOrNcx(IF hits = {} THEN <<>>
                 ELSE NavItems(zip, manifest[CHOOSE i \in hits : \A j \in hits : i <= j][2],
                               has_bs4),
                 zip, opf_path, manifest)

SpineCap == 20

\* mutant of SpineChapters: the chapters are numbered by their place in the
\* chapter list, not by their place in the spine
RECURSIVE SpineChapters_Renumbered(_, _, _)
SpineChapters_Renumbered(spine_order, manifest, i) ==
    LET kept == SelectSeq(SubSeq(spine_order, 1, IF Len(spine_order) < SpineCap
                                                 THEN Len(spine_order) ELSE SpineCap),
                          LAMBDA id : DictHas(manifest, id))
    IN  [k \in 1..Len(kept) |-> [number |-> k - 1, title |-> sChapterSp \o FormatNat(k),
                                 file_path |-> DictGet(manifest, kept[k])]]

\* the chapters analyze_epub_structure makes of the spine when there is no TOC
RECURSIVE SpineChapters(_, _, _)
SpineChapters(spine_order, manifest, i) ==
    IF i >= Len(spine_order) \/ i >= SpineCap THEN <<>>
    ELSE (IF DictHas(manifest, spine_order[i + 1])
          THEN <<[number |-> i, title |-> sChapterSp \o FormatNat(i + 1),
                  file_path |-> DictGet(manifest, spine_order[i + 1])]>>
          ELSE <<>>)
            \o SpineChapters(spine_order, manifest, i + 1)

\* the chapters analyze_epub_structure makes of the TOC entries
TocChapters(toc_items) ==
    [i \in 1..Len(toc_items) |->
        [number |-> i - 1, title |-> toc_items[i].title, file_path |-> toc_items[i].href]]

\* the chapter list: that of the TOC when it has entries, else that of the spine
EpubChapters(toc_chapters, spine_order, manifest) ==
    IF Len(toc_chapters) > 0 THEN toc_chapters
    ELSE SpineChapters(spine_order, manifest, 0)

\* BookStructure(chapters=chapters, total_chapters=len(chapters), ...)
BookStructure(chapters, format_type, spine_order) ==
    [chapters |-> chapters, total_chapters |-> Len(chapters),
     format_type |-> format_type, spine_order |-> spine_order]

\* analyze_epub_structure once _parse_opf has returned <<spine_order, manifest>>
AnalyzeParsedEpub(zip, opf_path, opf, has_bs4) ==
    Some(BookStructure(EpubChapters(TocChapters(FindTocItems(zip, opf_path, opf[2], has_bs4)),
                                    opf[1], opf[2]),
                       "epub", opf[1]))

\* analyze_epub_structure once _find_opf_file has returned
AnalyzeEpubAt(zip, opf_path, has_bs4) ==
    IF IsNone(opf_path) THEN None
    ELSE IF ~ZipHas(zip, Val(opf_path)) THEN None
    ELSE AnalyzeParsedEpub(zip, Val(opf_path), ParseOpf(ZipRead(zip, Val(opf_path))), has_bs4)

\* analyze_epub_structure: None, or Some(BookStructure)
AnalyzeEpubStructure(zip, has_bs4) ==
    IF ~zip.readable THEN None
    ELSE AnalyzeEpubAt(zip, FindOpfFile(zip), has_bs4)

\* analyze_kepub_structure: one chapter per spine id whose manifest file the
\* archive holds under its literal name.  The content files of the model hold
\* no h1/h2/h3/title element, so every title is the synthetic one.
RECURSIVE KepubChapters(_, _, _, _)
KepubChapters(zip, spine_order, manifest, i) ==
    IF i >= Len(spine_order) THEN <<>>
    ELSE (IF DictHas(manifest, spine_order[i + 1])
             /\ ZipHas(zip, DictGet(manifest, spine_order[i + 1]))
          THEN <<[number |-> i, title |-> sChapterSp \o FormatNat(i + 1),
                  file_path |-> DictGet(manifest, spine_order[i + 1])]>>
          ELSE <<>>)
            \o KepubChapters(zip, spine_order, manifest, i + 1)

\* analyze_kepub_structure once the package descriptor is parsed
AnalyzeParsedKepub(zip, opf) ==
    Some(BookStructure(KepubChapters(zip, opf[1], opf[2], 0), "kepub", opf[1]))

\* analyze_kepub_structure once _find_opf_file has returned
AnalyzeKepubAt(zip, opf_path) ==
    IF IsNone(opf_path) \/ ~ZipHas(zip, Val(opf_path)) THEN None
    ELSE AnalyzeParsedKepub(zip, ParseOpf(ZipRead(zip, Val(opf_path))))

\* analyze_kepub_structure: None, or Some(BookStructure)
AnalyzeKepubStructure(zip) ==
    IF ~zip.readable THEN None
    ELSE AnalyzeKepubAt(zip, FindOpfFile(zip))

\* what the statements inside the try of analyze_epub_structure and of
\* analyze_kepub_structure do before _parse_opf is called: zipfile.ZipFile
\* raises for a file that is no archive, and zip.read for a descriptor path
\* the archive does not hold
OpenDescriptor(zip) ==
    IF ~zip.readable THEN Raise("BadZipFile")
    ELSE IF ~IsNone(FindOpfFile(zip)) /\ ~ZipHas(zip, Val(FindOpfFile(zip)))
    THEN Raise("KeyError")
    ELSE Return(FindOpfFile(zip))

\* mutant of ReturnNoneOnException: the exception leaves the function
ReturnNoneOnException_Reraise(opened, result) ==
    IF opened.kind = "raise" THEN opened ELSE Return(result)

\* except Exception: return None, of both functions
ReturnNoneOnException(opened, result) ==
    IF opened.kind = "raise" THEN Return(None) ELSE Return(result)

\* the outcome of a call of analyze_epub_structure
AnalyzeEpubCall(zip, has_bs4) ==
    ReturnNoneOnException(OpenDescriptor(zip), AnalyzeEpubStructure(zip, has_bs4))

\* the outcome of a call of analyze_kepub_structure
AnalyzeKepubCall(zip) ==
    ReturnNoneOnException(OpenDescriptor(zip), AnalyzeKepubStructure(zip))

-----------------------------------------------------------------------------
(* Inputs of the classifier: chapter title lists *)

MaxFree == 3        \* longest title list drawn freely from TitlePool
MaxRoman == 12      \* longest bare Roman-numeral title list
MaxPerPart == 2     \* most numbered chapters under one part header

UnitsRoman == << <<"I">>, <<"I","I">>, <<"I","I","I">>, <<"I","V">>, <<"V">>,
                 <<"V","I">>, <<"V","I","I">>, <<"V","I","I","I">>, <<"I","X">> >>

\* the Roman numeral of n, as a book prints it (upper case)
RECURSIVE RomanOf(_)
RomanOf(n) == IF n >= 10 THEN <<"X">> \o RomanOf(n - 10)
              ELSE IF n = 0 THEN <<>> ELSE UnitsRoman[n]

tPartOne   == <<"P","a","r","t"," ","O","n","e">>
tPartTwo   == <<"P","a","r","t"," ","T","w","o">>
tPartThree == <<"P","A","R","T"," ","T","H","R","E","E">>
tPart1     == <<"P","a","r","t"," ","1">>
tPart2     == <<" ","p","a","r","t"," ","2"," ">>
tPart3     == <<"P","a","r","t"," ","3">>
tPartFour  == <<"P","a","r","t"," ","F","o","u","r">>
tCover     == <<"C","o","v","e","r">>
tPrologue  == <<"P","r","o","l","o","g","u","e">>
tPartners  == <<"P","a","r","t","n","e","r","s">>

RecognizedHeaders == {tPartOne, tPartTwo, tPartThree, tPart1, tPart2, tPart3}

TitlePool == {tPartOne, tPart2, tPartFour, tCover, tPrologue, tPartners,
              RomanOf(1), RomanOf(2), FormatNat(1), FormatNat(2)}

RECURSIVE SeqsUpTo(_, _)
SeqsUpTo(S, n) == IF n = 0 THEN {<<>>}
                  ELSE LET shorter == SeqsUpTo(S, n - 1) IN
                       shorter \cup {Append(q, x) : q \in {r \in shorter : Len(r) = n - 1}, x \in S}

\* "I", "II", ..., up to n
RomanBook(n) == [k \in 1..n |-> RomanOf(k)]
\* "1", "2", ..., up to n
DigitBook(n) == [k \in 1..n |-> FormatNat(k)]

\* a part header followed by n numbered chapters restarting at I (or 1)
PartOf(h, n, roman) == <<h>> \o (IF roman THEN RomanBook(n) ELSE DigitBook(n))

PartBooks ==
    {PartOf(h1, n1, r1) \o PartOf(h2, n2, r2) :
        h1 \in {tPartOne, tPart1}, h2 \in {tPartTwo, tPart2, tPartThree},
        n1 \in 0..MaxPerPart, n2 \in 0..MaxPerPart, r1 \in BOOLEAN, r2 \in BOOLEAN}

TitleLists == SeqsUpTo(TitlePool, MaxFree)
                \cup {RomanBook(n) : n \in 1..MaxRoman}
                \cup PartBooks

-----------------------------------------------------------------------------
(* Specification of the classifier *)

ArchiveIdle ==
    /\ archive = None /\ parsed = None /\ toc_found = None /\ structure = None
    /\ epub_outcome = None /\ kepub_outcome = None

SpanIdle ==
    /\ kepub = None /\ span_id = None /\ progress_percent = None
    /\ all_matches = None /\ span_info = None

SyncIdle == authenticated = FALSE /\ naive_stamps = FALSE /\ sync_call = None

DriveIdle == drive_store = None /\ folder_name = None /\ drive_call = None

SearchIdle == search_html = None /\ search_target = None /\ search_result = None

CodecIdle ==
    /\ sync_book = None /\ kobo_state = None /\ po_content = None /\ encoded = None
    /\ decoded = None /\ mapped = None /\ trip = None /\ calls = 0

InitClassify ==
    /\ titles \in TitleLists
    /\ mapping = None
    /\ pc = "classify"
    /\ HAS_BEAUTIFULSOUP = TRUE
    /\ ArchiveIdle /\ SpanIdle /\ CodecIdle /\ SyncIdle /\ DriveIdle /\ SearchIdle

\* _build_part_chapter_mapping applied to the chapters of the structure
Classify ==
    /\ pc = "classify"
    /\ mapping' = Some(BuildPartChapterMapping(titles))
    /\ pc' = "classified"
    /\ UNCHANGED <<titles, HAS_BEAUTIFULSOUP, archiveVars, spanVars, codecVars, syncVars, driveVars,
                   searchVars>>

NextClassify == Classify

SpecClassify == InitClassify /\ [][NextClassify]_vars

-----------------------------------------------------------------------------
(* Properties of the classifier *)

Classified == pc = "classified"

\* the title list is exactly "I", "II", "III", ... in order
IsRomanSequence(ts) == Len(ts) >= 1 /\ \A k \in 1..Len(ts) : ts[k] = RomanOf(k)

\* entry k gets chapter k, and every entry the part of the first
NumberedInOnePart(m) ==
    \A k \in 1..Len(m) : m[k].chapter = k /\ m[k].part = m[1].part /\ ~m[k].is_part_header

\* C6 as stated: for every chapter list that is one Roman-numeral sequence
\* "I","II","III",... without part header, the k-th entry gets chapter-in-part k
\* and all entries get the same part.
C6_AnyRomanSequence ==
    (Classified /\ IsRomanSequence(titles)) => NumberedInOnePart(Val(mapping))

\* C6 amended: the same for the Roman-numeral sequences that stay within the
\* numerals the classifier knows, "I" to "X" (at most ten entries).
C6_RomanSequenceToTen ==
    (Classified /\ IsRomanSequence(titles) /\ Len(titles) <= Len(RomanNumerals))
        => NumberedInOnePart(Val(mapping))

C6_Witness == Classified /\ IsRomanSequence(titles) /\ Len(titles) = Len(RomanNumerals)

\* the number a recognized part header names
HeaderNumber(t) ==
    CASE t \in {tPartOne, tPart1} -> 1
      [] t \in {tPartTwo, tPart2} -> 2
      [] t \in {tPartThree, tPart3} -> 3

\* a bare numeral I..X or 1..10, and its value
IsNumeralTitle(t) == \E n \in 1..Len(RomanNumerals) : t \in {RomanOf(n), FormatNat(n)}
NumeralValue(t) == CHOOSE n \in 1..Len(RomanNumerals) : t \in {RomanOf(n), FormatNat(n)}

\* index of the most recent part header at or before entry k
LastHeader(ts, k) == CHOOSE h \in 1..k :
    ts[h] \in RecognizedHeaders /\ \A j \in (h+1)..k : ts[j] \notin RecognizedHeaders

\* recognized part headers, each followed by numbered chapters restarting at I (or 1)
IsPartedBook(ts) ==
    /\ Len(ts) >= 1
    /\ ts[1] \in RecognizedHeaders
    /\ \A k \in 1..Len(ts) :
          \/ ts[k] \in RecognizedHeaders
          \/ IsNumeralTitle(ts[k]) /\ NumeralValue(ts[k]) = k - LastHeader(ts, k)

\* C7: in a book of recognized part headers each followed by numbered chapters
\* restarting at I (or 1), a header entry is a part header with the header's
\* number and chapter 0, and a numbered entry gets the part of the most recent
\* header and its own numeral as chapter.
C7_PartedBook ==
    (Classified /\ IsPartedBook(titles)) =>
        LET m == Val(mapping) IN
        \A k \in 1..Len(titles) :
            IF titles[k] \in RecognizedHeaders
            THEN /\ m[k].is_part_header
                 /\ m[k].part = HeaderNumber(titles[k])
                 /\ m[k].chapter = 0
            ELSE /\ ~m[k].is_part_header
                 /\ m[k].part = HeaderNumber(titles[LastHeader(titles, k)])
                 /\ m[k].chapter = NumeralValue(titles[k])

\* the scenario of the specification: "Part One","I","II","Part Two","I"
C7_Witness ==
    /\ Classified
    /\ titles = <<tPartOne, RomanOf(1), RomanOf(2), tPartTwo, RomanOf(1)>>
    /\ IsPartedBook(titles)
    /\ Val(mapping)[4].part = 2 /\ Val(mapping)[5].chapter = 1

\* current_part and chapter_in_part after the first k entries of the loop
RunningState(k) ==
    ClassifyLoop([part |-> 1, chap |-> 1, map |-> <<>>], SubSeq(titles, 1, k),
                 DetectPartStructure(titles))

\* entry k is no part header and its title is a bare numeral
NumberedEntry(k) ==
    ~IsPartHeader(Strip(titles[k])) /\ ~IsNone(ExtractChapterNumber(Strip(titles[k])))

\* entry k is mapped to the running part and chapter after it
MappedToRunning(k) ==
    /\ Val(mapping)[k].part = RunningState(k).part
    /\ Val(mapping)[k].chapter = RunningState(k).chap

\* the numbered entry k is a part boundary when boundary holds, and else sets
\* chapter_in_part to its number and leaves current_part
BoundaryExactlyWhen(k, boundary) ==
    /\ MappedToRunning(k)
    /\ IF boundary
       THEN /\ RunningState(k).part = RunningState(k - 1).part + 1
            /\ RunningState(k).chap = 1
       ELSE /\ RunningState(k).part = RunningState(k - 1).part
            /\ RunningState(k).chap = Val(ExtractChapterNumber(Strip(titles[k])))

\* C22: a numbered title is a part boundary (current_part incremented,
\* chapter_in_part reset to 1) exactly when no title of the book is a part
\* header by _is_part_header, its number is 1 and chapter_in_part is already
\* greater than 1; in every other case chapter_in_part becomes the number and
\* current_part is unchanged.
C22_BoundaryWithoutPartHeaders ==
    Classified =>
        \A k \in 1..Len(titles) :
            NumberedEntry(k) =>
                BoundaryExactlyWhen(k,
                    /\ \A j \in 1..Len(titles) : ~IsPartHeader(titles[j])
                    /\ Val(ExtractChapterNumber(Strip(titles[k]))) = 1
                    /\ RunningState(k - 1).chap > 1)

\* the same with the first condition that of _detect_part_structure: no title
\* starts with a part indicator
C22_BoundaryWithoutIndicators ==
    Classified =>
        \A k \in 1..Len(titles) :
            NumberedEntry(k) =>
                BoundaryExactlyWhen(k,
                    /\ ~DetectPartStructure(titles)
                    /\ Val(ExtractChapterNumber(Strip(titles[k]))) = 1
                    /\ RunningState(k - 1).chap > 1)

\* "Partners", "2", "1": no part header, and the "1" after chapter 2 stays in
\* part 1
C22_IndicatorWithoutHeader ==
    /\ Classified
    /\ titles = <<tPartners, FormatNat(2), FormatNat(1)>>
    /\ Val(mapping)[3].part = 1 /\ Val(mapping)[3].chapter = 1

\* "2", "1": the "1" after chapter 2 opens part 2
C22_BoundaryTaken ==
    /\ Classified
    /\ titles = <<FormatNat(2), FormatNat(1)>>
    /\ Val(mapping)[2].part = 2 /\ Val(mapping)[2].chapter = 1

\* the running part and chapter are the same after entry k as before it
RunningUnchanged(k) ==
    /\ RunningState(k).part = RunningState(k - 1).part
    /\ RunningState(k).chap = RunningState(k - 1).chap

\* the title holds one of the front/back-matter keywords
HasMatterKeyword(title) ==
    \E i \in 1..Len(SkipWords) :
        \E at \in 1..Len(title) :
            /\ at + Len(SkipWords[i]) - 1 <= Len(title)
            /\ Lower(SubSeq(title, at, at + Len(SkipWords[i]) - 1)) = SkipWords[i]

\* C23: of the entries that are no part header, a title without a number that
\* holds a front/back-matter keyword is mapped to part 0, chapter 0 and leaves
\* current_part and chapter_in_part as they were; a title without a number
\* and without keyword is mapped to (current_part, chapter_in_part) and then
\* adds one to chapter_in_part; a numbered title leaves chapter_in_part at the
\* chapter it was mapped to.
C23_UnnumberedEntries ==
    Classified =>
        \A k \in 1..Len(titles) :
            ~IsPartHeader(Strip(titles[k])) =>
                IF ~IsNone(ExtractChapterNumber(Strip(titles[k])))
                THEN MappedToRunning(k)
                ELSE IF HasMatterKeyword(titles[k])
                THEN /\ Val(mapping)[k].part = 0 /\ Val(mapping)[k].chapter = 0
                     /\ RunningUnchanged(k)
                ELSE /\ Val(mapping)[k].part = RunningState(k - 1).part
                     /\ Val(mapping)[k].chapter = RunningState(k - 1).chap
                     /\ RunningState(k).part = RunningState(k - 1).part
                     /\ RunningState(k).chap = RunningState(k - 1).chap + 1

\* "Prologue", "Cover", "Prologue": chapters 1 and 2 of part 1 around the
\* front matter
C23_Witness ==
    /\ Classified
    /\ titles = <<tPrologue, tCover, tPrologue>>
    /\ Val(mapping)[2].part = 0 /\ Val(mapping)[2].chapter = 0
    /\ Val(mapping)[2].is_front_matter
    /\ Val(mapping)[3].part = 1 /\ Val(mapping)[3].chapter = 2

-----------------------------------------------------------------------------
(* Inputs of the archive parser *)

MaxSpine == 3        \* longest spine drawn freely from SpineRefs
MaxLongSpine == 22   \* longest spine of the long-book family (beyond SpineCap)

ItemId(k) == <<"s">> \o FormatNat(k)
ItemHref(k) == <<"c">> \o FormatNat(k) \o <<".","h","t","m","l">>

sContentOpf == <<"c","o","n","t","e","n","t",".","o","p","f">>
sOebps == <<"O","E","B","P","S">>
sNavHref == <<"n","a","v",".","x","h","t","m","l">>
sNcxHref == <<"t","o","c",".","n","c","x">>
sNavId == <<"n","a","v">>
sNcxId == <<"n","c","x">>
sGhostId == <<"g","h","o","s","t">>
tIntro == <<"I","n","t","r","o">>

HtmlDoc == [kind |-> "html", nav |-> None, text |-> <<>>, spans |-> <<>>]

\* a navigation document: two usable anchors and one without href
NavDoc == [kind |-> "html", text |-> <<>>, spans |-> <<>>,
           nav |-> Some(<< [href |-> Some(ItemHref(2)), text |-> tIntro],
                           [href |-> None, text |-> tCover],
                           [href |-> Some(ItemHref(1)), text |-> tPrologue] >>)]

\* a navigation document whose <nav> holds no usable anchor
EmptyNavDoc == [kind |-> "html", text |-> <<>>, spans |-> <<>>,
                nav |-> Some(<< [href |-> Some(ItemHref(1)), text |-> <<" ">>] >>)]

NcxDoc == [kind |-> "ncx", wellformed |-> TRUE,
           navPoints |-> << [text |-> Some(Some(tPartOne)), src |-> Some(ItemHref(1))],
                            [text |-> Some(None), src |-> Some(ItemHref(2))],
                            [text |-> None, src |-> Some(ItemHref(3))] >>]

BadNcxDoc == [kind |-> "ncx", wellformed |-> FALSE, navPoints |-> <<>>]

Item(id, href) == [id |-> Some(id), href |-> Some(href)]

\* manifest items for the content files 1..n
ContentItems(n) == [k \in 1..n |-> Item(ItemId(k), ItemHref(k))]

\* the itemref attributes a spine is drawn from: three manifest ids, an id the
\* manifest does not hold, and an itemref without idref
SpineRefs == {Some(ItemId(1)), Some(ItemId(2)), Some(ItemId(3)), Some(sGhostId), None}

Spines == SeqsUpTo(SpineRefs, MaxSpine)
            \cup {[k \in 1..n |-> Some(ItemId(k))] : n \in (SpineCap - 1)..MaxLongSpine}
            \cup {[k \in 1..n |-> IF k = 2 THEN Some(sGhostId) ELSE Some(ItemId(k))] :
                     n \in {MaxLongSpine}}

\* the kinds of table of contents an archive is built with
TocKinds == {"none", "nav", "emptynav", "ncx", "badncx", "nav+ncx", "navmissing"}

TocItemsOf(toc) ==
    (IF toc \in {"nav", "emptynav", "nav+ncx", "navmissing"}
     THEN <<Item(sNavId, sNavHref)>> ELSE <<>>)
    \o (IF toc \in {"ncx", "badncx", "nav+ncx"} THEN <<Item(sNcxId, sNcxHref)>> ELSE <<>>)

TocEntriesOf(toc, dir) ==
    (IF toc \in {"nav", "nav+ncx"} THEN <<[name |-> PathJoin(dir, sNavHref), doc |-> NavDoc]>>
     ELSE IF toc = "emptynav" THEN <<[name |-> PathJoin(dir, sNavHref), doc |-> EmptyNavDoc]>>
     ELSE <<>>)
    \o (IF toc \in {"ncx", "nav+ncx"} THEN <<[name |-> PathJoin(dir, sNcxHref), doc |-> NcxDoc]>>
        ELSE IF toc = "badncx" THEN <<[name |-> PathJoin(dir, sNcxHref), doc |-> BadNcxDoc]>>
        ELSE <<>>)

\* An archive with its package descriptor in directory dir (<<>> for the root),
\* n content files, the given spine and table of contents.  extra is a manifest
\* item list put before the content items.
MkArchive(dir, n, itemrefs, toc, wellformed, container) ==
    LET opf_path == PathJoin(dir, sContentOpf)
        items == ContentItems(n) \o TocItemsOf(toc)
        opf == [kind |-> "opf", wellformed |-> wellformed,
                items |-> items, itemrefs |-> itemrefs]
    IN  [readable |-> TRUE,
         container |-> container,
         entries |-> <<[name |-> opf_path, doc |-> opf]>>
                     \o [k \in 1..n |-> [name |-> PathJoin(dir, ItemHref(k)), doc |-> HtmlDoc]]
                     \o TocEntriesOf(toc, dir)]

Unreadable == [readable |-> FALSE, container |-> None, entries |-> <<>>]

MaxLinks == 2        \* most entries of a table of contents drawn from LinkPool

sExtraHref == <<"x",".","h","t","m","l">>
sGoneHref == <<"g","o","n","e",".","h","t","m","l">>
sFragment == <<"#","p","2">>

\* the hrefs a table of contents is drawn from: a content file, the same with
\* a fragment, its path from the archive root, a file the manifest may not
\* list, and a file the archive does not hold
LinkPool == {ItemHref(1), ItemHref(1) \o sFragment, PathJoin(sOebps, ItemHref(1)),
             sExtraHref, sGoneHref}

NavWith(links) ==
    [kind |-> "html", text |-> <<>>, spans |-> <<>>,
     nav |-> Some([i \in 1..Len(links) |-> [href |-> Some(links[i]), text |-> tIntro]])]

NcxWith(links) ==
    [kind |-> "ncx", wellformed |-> TRUE,
     navPoints |-> [i \in 1..Len(links) |->
                       [text |-> Some(Some(tIntro)), src |-> Some(links[i])]]]

\* An archive with its package descriptor in directory dir, three content
\* files and a navigation document (kind "nav") or an NCX (kind "ncx") next to
\* the descriptor, whose entries point at links; with extra, the archive holds
\* the file x.html, which the manifest does not list.
MkLinked(dir, kind, links, extra) ==
    LET opf_path == PathJoin(dir, sContentOpf)
        toc_href == IF kind = "nav" THEN sNavHref ELSE sNcxHref
        opf == [kind |-> "opf", wellformed |-> TRUE,
                items |-> ContentItems(3)
                            \o <<Item(IF kind = "nav" THEN sNavId ELSE sNcxId, toc_href)>>,
                itemrefs |-> [k \in 1..3 |-> Some(ItemId(k))]]
    IN  [readable |-> TRUE,
         container |-> IF Len(dir) = 0 THEN None ELSE Some(<<Some(opf_path)>>),
         entries |-> <<[name |-> opf_path, doc |-> opf]>>
                     \o [k \in 1..3 |-> [name |-> PathJoin(dir, ItemHref(k)), doc |-> HtmlDoc]]
                     \o <<[name |-> PathJoin(dir, toc_href),
                           doc |-> IF kind = "nav" THEN NavWith(links) ELSE NcxWith(links)]>>
                     \o (IF extra THEN <<[name |-> PathJoin(dir, sExtraHref), doc |-> HtmlDoc]>>
                         ELSE <<>>)]

LinkedArchives ==
    {MkLinked(dir, kind, links, extra) :
        dir \in {<<>>, sOebps}, kind \in {"nav", "ncx"},
        links \in SeqsUpTo(LinkPool, MaxLinks), extra \in BOOLEAN}

Archives ==
    {MkArchive(<<>>, 3, sp, toc, TRUE, None) : sp \in Spines, toc \in TocKinds}
    \cup {MkArchive(<<>>, MaxLongSpine, sp, "none", TRUE, None) : sp \in Spines}
    \cup {MkArchive(sOebps, 3, sp, toc, TRUE, Some(<<Some(PathJoin(sOebps, sContentOpf))>>)) :
             sp \in SeqsUpTo(SpineRefs, 1), toc \in TocKinds}
    \cup {MkArchive(<<>>, 3, sp, "none", wf, c) :
             sp \in SeqsUpTo(SpineRefs, 1), wf \in BOOLEAN,
             c \in {None, Some(<<None, Some(sContentOpf)>>), Some(<<Some(sNcxHref)>>),
                    Some(<<Some(PathJoin(sOebps, sContentOpf))>>)}}
    \cup {Unreadable, [readable |-> TRUE, container |-> None, entries |-> <<>>]}
    \cup LinkedArchives

-----------------------------------------------------------------------------
(* Specification of the archive parser *)

ClassifyIdle == titles = <<>> /\ mapping = None

InitArchive ==
    /\ archive \in Archives
    /\ HAS_BEAUTIFULSOUP \in BOOLEAN
    /\ parsed = None /\ toc_found = None /\ structure = None
    /\ epub_outcome = None /\ kepub_outcome = None
    /\ pc = "analyze"
    /\ ClassifyIdle /\ SpanIdle /\ CodecIdle /\ SyncIdle /\ DriveIdle /\ SearchIdle

\* analyze_epub_structure on the archive; parsed and toc_found keep what its
\* calls of _parse_opf and _find_toc_items returned
AnalyzeEpub ==
    /\ pc = "analyze"
    /\ LET opf_path == IF archive.readable THEN FindOpfFile(archive) ELSE None
           opened == ~IsNone(opf_path) /\ ZipHas(archive, Val(opf_path))
       IN  /\ parsed' = IF opened THEN Some(ParseOpf(ZipRead(archive, Val(opf_path))))
                        ELSE None
           /\ toc_found' = IF opened
                           THEN Some(FindTocItems(archive, Val(opf_path),
                                                  ParseOpf(ZipRead(archive, Val(opf_path)))[2],
                                                  HAS_BEAUTIFULSOUP))
                           ELSE None
    /\ structure' = AnalyzeEpubStructure(archive, HAS_BEAUTIFULSOUP)
    /\ epub_outcome' = Some(AnalyzeEpubCall(archive, HAS_BEAUTIFULSOUP))
    /\ pc' = "analyzed"
    /\ UNCHANGED <<archive, kepub_outcome, HAS_BEAUTIFULSOUP, classifyVars, spanVars,
                   codecVars, syncVars, driveVars,
                   searchVars>>

\* analyze_kepub_structure on the archive
AnalyzeKepub ==
    /\ pc \in {"analyze", "analyzed"}
    /\ IsNone(kepub_outcome)
    /\ kepub_outcome' = Some(AnalyzeKepubCall(archive))
    /\ UNCHANGED <<archive, parsed, toc_found, structure, epub_outcome, pc,
                   HAS_BEAUTIFULSOUP, classifyVars, spanVars, codecVars, syncVars, driveVars,
                   searchVars>>

NextArchive == AnalyzeEpub \/ AnalyzeKepub

SpecArchive == InitArchive /\ [][NextArchive]_vars

-----------------------------------------------------------------------------
(* Properties of the archive parser *)

Analyzed == pc = "analyzed"

Min(a, b) == IF a < b THEN a ELSE b

\* analyze_epub_structure returned a structure and neither the navigation
\* document nor the NCX yielded an entry
SpineFallback == Analyzed /\ ~IsNone(structure) /\ toc_found = Some(<<>>)

\* C8 as stated: without TOC entries the chapters are synthesized from the
\* spine, at most 20, the N-th chapter titled "Chapter N" and pointing at the
\* manifest file of the N-th spine id.
C8_NthChapterIsNthSpineId ==
    SpineFallback =>
        LET ch == Val(structure).chapters
            spine_order == Val(parsed)[1]
            manifest == Val(parsed)[2]
        IN  /\ Len(ch) <= SpineCap
            /\ \A n \in 1..Len(ch) :
                  /\ ch[n].title = sChapterSp \o FormatNat(n)
                  /\ n <= Len(spine_order)
                  /\ DictHas(manifest, spine_order[n])
                  /\ ch[n].file_path = DictGet(manifest, spine_order[n])

\* C8 amended: without TOC entries there is one chapter for each of the first
\* 20 spine ids that the manifest holds, in spine order; the chapter made from
\* the N-th spine id is titled "Chapter N" and points at that id's manifest
\* file.  A spine id the manifest does not hold yields no chapter, so the
\* N-th chapter is "Chapter N" only while no earlier spine id is missing.
C8_ChapterPerResolvedSpineId ==
    SpineFallback =>
        LET ch == Val(structure).chapters
            spine_order == Val(parsed)[1]
            manifest == Val(parsed)[2]
            last == Min(Len(spine_order), SpineCap)
        IN  /\ Val(structure).total_chapters = Len(ch)
            /\ \A c \in 1..Len(ch) :
                  LET n == ch[c].number + 1 IN
                  /\ n \in 1..last
                  /\ DictHas(manifest, spine_order[n])
                  /\ ch[c].title = sChapterSp \o FormatNat(n)
                  /\ ch[c].file_path = DictGet(manifest, spine_order[n])
            /\ \A n \in 1..last :
                  DictHas(manifest, spine_order[n]) => \E c \in 1..Len(ch) : ch[c].number = n - 1
            /\ \A c \in 1..Len(ch) : \A d \in 1..Len(ch) :
                  c < d => ch[c].number < ch[d].number

\* the scenario of the specification: spine [s1,s2,s3], manifest
\* {s1:c1.html, s2:c2.html, s3:c3.html}, no nav/ncx
C8_Witness ==
    /\ SpineFallback
    /\ Val(parsed)[1] = <<ItemId(1), ItemId(2), ItemId(3)>>
    /\ Val(structure).chapters =
          << [number |-> 0, title |-> <<"C","h","a","p","t","e","r"," ","1">>, file_path |-> <<"c","1",".","h","t","m","l">>],
             [number |-> 1, title |-> <<"C","h","a","p","t","e","r"," ","2">>, file_path |-> <<"c","2",".","h","t","m","l">>],
             [number |-> 2, title |-> <<"C","h","a","p","t","e","r"," ","3">>, file_path |-> <<"c","3",".","h","t","m","l">>] >>

\* no element occurs twice
NoDuplicates(q) == \A i \in 1..Len(q) : \A j \in 1..Len(q) : i # j => q[i] # q[j]

\* the package descriptor the analysis read
OpfDocument == ZipRead(archive, Val(FindOpfFile(archive)))

\* A valid package descriptor: well-formed, every item with id and href, the
\* ids unique, every itemref naming a manifest item, no item named twice.
ValidPackage(opf) ==
    /\ opf.kind = "opf" /\ opf.wellformed
    /\ \A i \in 1..Len(opf.items) : Truthy(opf.items[i].id) /\ Truthy(opf.items[i].href)
    /\ NoDuplicates([i \in 1..Len(opf.items) |-> opf.items[i].id])
    /\ \A r \in 1..Len(opf.itemrefs) :
          /\ Truthy(opf.itemrefs[r])
          /\ \E i \in 1..Len(opf.items) : opf.items[i].id = opf.itemrefs[r]
    /\ NoDuplicates(opf.itemrefs)

\* C10: for a valid archive the spine order returned by _parse_opf, and kept
\* in BookStructure.spine_order, holds no id twice.
C10_SpineWithoutDuplicates ==
    (Analyzed /\ ~IsNone(parsed) /\ ValidPackage(OpfDocument)) =>
        /\ NoDuplicates(Val(parsed)[1])
        /\ ~IsNone(structure)
        /\ Val(structure).spine_order = Val(parsed)[1]

C10_Witness ==
    /\ Analyzed /\ ~IsNone(parsed) /\ ValidPackage(OpfDocument)
    /\ Len(Val(parsed)[1]) = MaxSpine
    /\ NoDuplicates(Val(parsed)[1])

\* an href without its fragment identifier
WithoutFragment(href) ==
    IF Contains(href, <<"#">>) THEN SubSeq(href, 1, Find(href, <<"#">>)) ELSE href

\* the hrefs a navigation document or an NCX links to
LinksOf(doc) ==
    IF doc.kind = "html"
    THEN IF IsNone(doc.nav) THEN {}
         ELSE {Val(Val(doc.nav)[i].href) : i \in {j \in 1..Len(Val(doc.nav)) :
                                                    ~IsNone(Val(doc.nav)[j].href)}}
    ELSE IF doc.kind = "ncx"
    THEN {Val(doc.navPoints[i].src) : i \in {j \in 1..Len(doc.navPoints) :
                                                ~IsNone(doc.navPoints[j].src)}}
    ELSE {}

\* A valid archive: it opens, its package descriptor is found and valid, the
\* file of every manifest item is in the archive under the descriptor's
\* directory, every other file of the archive is the file of a manifest item,
\* and every link of a navigation document or an NCX, read from the
\* directory of that document and without its fragment, names a file of the
\* archive.
ValidArchive(zip) ==
    /\ zip.readable
    /\ ~IsNone(FindOpfFile(zip))
    /\ ZipHas(zip, Val(FindOpfFile(zip)))
    /\ LET opf_path == Val(FindOpfFile(zip))
           opf == ZipRead(zip, opf_path)
           FileOf(item) == PathJoin(Dirname(opf_path), Val(item.href))
       IN  /\ ValidPackage(opf)
           /\ \A k \in 1..Len(opf.items) : ZipHas(zip, FileOf(opf.items[k]))
           /\ \A e \in 1..Len(zip.entries) :
                  \/ zip.entries[e].name = opf_path
                  \/ \E k \in 1..Len(opf.items) : zip.entries[e].name = FileOf(opf.items[k])
           /\ \A e \in 1..Len(zip.entries) : \A href \in LinksOf(zip.entries[e].doc) :
                  ZipHas(zip, PathJoin(Dirname(zip.entries[e].name), WithoutFragment(href)))

\* an href resolves when the archive holds it literally or under the
\* directory of the package descriptor
Resolves(zip, opf_path, href) ==
    ZipHas(zip, href) \/ ZipHas(zip, PathJoin(Dirname(opf_path), href))

\* C11: for a valid archive, the href of every entry _find_toc_items returns
\* (from the navigation document or the NCX) that resolves to a file of the
\* archive equals a value of the manifest _parse_opf returned.
C11_TocHrefsInManifest ==
    (Analyzed /\ ~IsNone(toc_found) /\ ValidArchive(archive)) =>
        \A i \in 1..Len(Val(toc_found)) :
            Resolves(archive, Val(FindOpfFile(archive)), Val(toc_found)[i].href) =>
                \E k \in 1..Len(Val(parsed)[2]) :
                    Val(parsed)[2][k][2] = Val(toc_found)[i].href

\* a valid archive with its descriptor in OEBPS whose NCX yields an entry
\* that resolves under OEBPS and one, with a fragment, that does not resolve
C11_Witness ==
    /\ Analyzed /\ ~IsNone(toc_found) /\ ValidArchive(archive)
    /\ Dirname(Val(FindOpfFile(archive))) = sOebps
    /\ Len(Val(toc_found)) = 2
    /\ Val(toc_found)[1].href = ItemHref(1)
    /\ Resolves(archive, Val(FindOpfFile(archive)), Val(toc_found)[1].href)
    /\ ~ZipHas(archive, Val(toc_found)[1].href)
    /\ ~Resolves(archive, Val(FindOpfFile(archive)), Val(toc_found)[2].href)


\* the package descriptor of the archive cannot be had: the file is no
\* archive, it holds no descriptor, the entry the container names cannot be
\* read, or its XML does not parse
DescriptorFails(zip) ==
    \/ ~zip.readable
    \/ IsNone(FindOpfFile(zip))
    \/ ~ZipHas(zip, Val(FindOpfFile(zip)))
    \/ ~(/\ ZipRead(zip, Val(FindOpfFile(zip))).kind = "opf"
         /\ ZipRead(zip, Val(FindOpfFile(zip))).wellformed)

\* the call returned None or a structure without chapters and spine
NoneOrEmpty(outcome) ==
    /\ outcome.kind = "return"
    /\ \/ IsNone(outcome.value)
       \/ /\ Val(outcome.value).chapters = <<>>
          /\ Val(outcome.value).total_chapters = 0
          /\ Val(outcome.value).spine_order = <<>>

\* C15: analyze_epub_structure and analyze_kepub_structure never raise; for
\* an archive whose package descriptor is missing, unreadable or malformed
\* they return None or a structure with no chapters, and _parse_opf, when it
\* is called, returns an empty spine and an empty manifest.
C15_NeverRaisesPastBoundary ==
    /\ ~IsNone(epub_outcome) =>
           /\ Val(epub_outcome).kind = "return"
           /\ DescriptorFails(archive) => NoneOrEmpty(Val(epub_outcome))
    /\ ~IsNone(kepub_outcome) =>
           /\ Val(kepub_outcome).kind = "return"
           /\ DescriptorFails(archive) => NoneOrEmpty(Val(kepub_outcome))
    /\ (Analyzed /\ ~IsNone(parsed) /\ DescriptorFails(archive)) =>
           parsed = Some(<<<<>>, <<>>>>)

\* a descriptor with manifest items and a spine reference whose XML does not
\* parse: _parse_opf returned nothing of them and both calls returned a
\* structure without chapters
C15_Witness ==
    /\ Analyzed /\ ~IsNone(kepub_outcome)
    /\ archive.readable /\ ~IsNone(FindOpfFile(archive))
    /\ ZipHas(archive, Val(FindOpfFile(archive)))
    /\ ~OpfDocument.wellformed
    /\ Len(OpfDocument.items) > 0 /\ Len(OpfDocument.itemrefs) > 0
    /\ parsed = Some(<<<<>>, <<>>>>)
    /\ ~IsNone(Val(epub_outcome).value) /\ Val(Val(epub_outcome).value).total_chapters = 0
    /\ ~IsNone(Val(kepub_outcome).value) /\ Val(Val(kepub_outcome).value).total_chapters = 0

\* the container names a descriptor the archive does not hold: zip.read
\* raised and both calls returned None
C15_UnreadableEntry ==
    /\ Analyzed /\ ~IsNone(kepub_outcome)
    /\ OpenDescriptor(archive) = Raise("KeyError")
    /\ epub_outcome = Some(Return(None)) /\ kepub_outcome = Some(Return(None))

\* the path under which the archive holds href by the rule "the href
\* literally, then relative to the directory of the package descriptor"
ResolvedPath(zip, opf_path, href) ==
    IF ZipHas(zip, href) THEN Some(href)
    ELSE IF ZipHas(zip, PathJoin(Dirname(opf_path), href))
    THEN Some(PathJoin(Dirname(opf_path), href))
    ELSE None

\* the manifest hrefs _find_toc_items takes for the navigation document: the
\* first that holds "nav" or "toc"
NavFiles(manifest) ==
    {manifest[i][2] : i \in {k \in 1..Len(manifest) :
        /\ Contains(Lower(manifest[k][2]), sNav) \/ Contains(Lower(manifest[k][2]), sToc)
        /\ \A j \in 1..(k - 1) :
               ~(Contains(Lower(manifest[j][2]), sNav) \/ Contains(Lower(manifest[j][2]), sToc))}}

\* the entries of the navigation document at path, when there is one
NavEntriesAt(zip, path) ==
    IF IsNone(path) THEN <<>> ELSE ParseNavHtml(ZipRead(zip, Val(path)), TRUE)

\* C18: every reader finds a file by its href literally, else relative to
\* the directory of the package descriptor.  For _find_toc_items: a
\* navigation document with entries that the rule finds gives the entries
\* of the table of contents.  For analyze_kepub_structure: every spine id
\* whose manifest file the rule finds gives a chapter.
C18_SameResolutionEverywhere ==
    (Analyzed /\ ~IsNone(parsed)) =>
        /\ (HAS_BEAUTIFULSOUP /\ ~IsNone(toc_found)) =>
               \A nav_file \in NavFiles(Val(parsed)[2]) :
               \A entries \in {NavEntriesAt(archive,
                                  ResolvedPath(archive, Val(FindOpfFile(archive)), nav_file))} :
                   Len(entries) > 0 => Val(toc_found) = entries
        /\ (~IsNone(kepub_outcome) /\ ~IsNone(Val(kepub_outcome).value)) =>
               \A i \in 1..Len(Val(parsed)[1]) :
                   (/\ DictHas(Val(parsed)[2], Val(parsed)[1][i])
                    /\ ~IsNone(ResolvedPath(archive, Val(FindOpfFile(archive)),
                                            DictGet(Val(parsed)[2], Val(parsed)[1][i])))) =>
                       \E k \in 1..Len(Val(Val(kepub_outcome).value).chapters) :
                           Val(Val(kepub_outcome).value).chapters[k].number = i - 1

\* the entries of the navigation document of the manifest, found by the rule
\* of ResolvedPath; none when the manifest names no navigation document
NavEntries(zip, opf_path, manifest) ==
    IF NavFiles(manifest) = {} THEN <<>>
    ELSE NavEntriesAt(zip, ResolvedPath(zip, opf_path, CHOOSE f \in NavFiles(manifest) : TRUE))

\* the chapter list by the precedence navigation document, NCX, spine
ByPrecedence(from_nav, from_ncx, spine_order, manifest) ==
    IF Len(from_nav) > 0 THEN TocChapters(from_nav)
    ELSE IF Len(from_ncx) > 0 THEN TocChapters(from_ncx)
    ELSE SpineChapters(spine_order, manifest, 0)

\* C19: with BeautifulSoup installed, the chapter list of
\* analyze_epub_structure is the anchors of the navigation document of the
\* manifest when its <nav> element has an anchor with text and href, else
\* the navigation points of the NCX when there are any, else the chapters
\* made of the spine.
C19_TocPrecedence ==
    (Analyzed /\ ~IsNone(parsed) /\ ~IsNone(structure) /\ HAS_BEAUTIFULSOUP) =>
        Val(structure).chapters =
            ByPrecedence(NavEntries(archive, Val(FindOpfFile(archive)), Val(parsed)[2]),
                         FindNcxToc(archive, Val(parsed)[2], Val(FindOpfFile(archive))),
                         Val(parsed)[1], Val(parsed)[2])

\* the same for the archives that hold the navigation document of the
\* manifest under its literal href, or not at all
C19_LiteralNavPrecedence ==
    (/\ Analyzed /\ ~IsNone(parsed) /\ ~IsNone(structure) /\ HAS_BEAUTIFULSOUP
     /\ \A f \in NavFiles(Val(parsed)[2]) :
            ZipHas(archive, f) \/ IsNone(ResolvedPath(archive, Val(FindOpfFile(archive)), f))) =>
        Val(structure).chapters =
            ByPrecedence(NavEntries(archive, Val(FindOpfFile(archive)), Val(parsed)[2]),
                         FindNcxToc(archive, Val(parsed)[2], Val(FindOpfFile(archive))),
                         Val(parsed)[1], Val(parsed)[2])
-----------------------------------------------------------------------------
(* Python float arithmetic on exact rationals <<n, d>>, d > 0, lowest terms *)

\* the archive holds an entry whose name ends in .opf
HoldsDescriptor(zip) ==
    \E i \in 1..Len(zip.entries) : EndsWith(zip.entries[i].name, sDotOpf)

\* the container descriptor declares a path ending in .opf
DeclaresDescriptor(zip) ==
    /\ ~IsNone(zip.container)
    /\ \E i \in 1..Len(Val(zip.container)) :
           /\ Truthy(Val(zip.container)[i])
           /\ EndsWith(Val(Val(zip.container)[i]), sDotOpf)

\* C29: _find_opf_file returns None or the name of an entry of the archive:
\* when the path the container descriptor declares is no entry, the entry
\* names are still scanned for a .opf file, so an archive that holds one has
\* its package descriptor read by analyze_epub_structure.
C29_DescriptorIsEntry ==
    (Analyzed /\ archive.readable) =>
        /\ IsNone(FindOpfFile(archive)) \/ ZipHas(archive, Val(FindOpfFile(archive)))
        /\ HoldsDescriptor(archive) => ~IsNone(parsed)

\* the same for the archives whose container descriptor declares no path or
\* one that is an entry
C29_DeclaredEntry ==
    (/\ Analyzed /\ archive.readable
     /\ DeclaresDescriptor(archive) => ZipHas(archive, Val(FindOpfFile(archive)))) =>
        /\ IsNone(FindOpfFile(archive)) \/ ZipHas(archive, Val(FindOpfFile(archive)))
        /\ HoldsDescriptor(archive) => ~IsNone(parsed)

\* the container descriptor declares OEBPS/content.opf, the archive holds
\* content.opf only, and no package descriptor was read
C29_StaleContainer ==
    /\ Analyzed /\ archive.readable
    /\ DeclaresDescriptor(archive)
    /\ HoldsDescriptor(archive)
    /\ ~ZipHas(archive, Val(FindOpfFile(archive)))
    /\ IsNone(parsed) /\ IsNone(structure)

\* the container descriptor declares no usable path and the scan of the
\* entry names found the package descriptor
C29_ScanFound ==
    /\ Analyzed /\ archive.readable
    /\ ~DeclaresDescriptor(archive) /\ ~IsNone(archive.container)
    /\ HoldsDescriptor(archive)
    /\ ~IsNone(parsed)

Abs(n) == IF n < 0 THEN -n ELSE n

RECURSIVE GCD(_, _)
GCD(a, b) == IF b = 0 THEN a ELSE GCD(b, a % b)

\* the rational n/d (d # 0)
Rat(n, d) ==
    LET g == GCD(Abs(n), Abs(d))
        sgn == IF d < 0 THEN -1 ELSE 1
    IN  <<sgn * (n \div g), sgn * (d \div g)>>

RInt(n) == <<n, 1>>
RAdd(x, y) == Rat(x[1] * y[2] + y[1] * x[2], x[2] * y[2])
RSub(x, y) == Rat(x[1] * y[2] - y[1] * x[2], x[2] * y[2])
RMul(x, y) == Rat(x[1] * y[1], x[2] * y[2])
RDiv(x, y) == Rat(x[1] * y[2], x[2] * y[1])
RLess(x, y) == x[1] * y[2] < y[1] * x[2]
RLeq(x, y) == x[1] * y[2] <= y[1] * x[2]
RAbs(x) == <<Abs(x[1]), x[2]>>
\* min(x, y) and max(x, y) of Python: the first argument unless the second is
\* strictly smaller (larger)
RMin(x, y) == IF RLess(y, x) THEN y ELSE x
RMax(x, y) == IF RLess(x, y) THEN y ELSE x
\* int(x): truncation toward zero
RTrunc(x) == IF x[1] >= 0 THEN x[1] \div x[2] ELSE -((-x[1]) \div x[2])

-----------------------------------------------------------------------------
(* Span Locator: _find_span_in_kepub.                                      *)
(*                                                                         *)
(* The spans field of an "html" document lists the elements that carry an  *)
(* id attribute, in document order, as [id, tag, text, block]: block is    *)
(* the text of the nearest p/div/section/body ancestor.                    *)

\* f'id="{span_id}"' in content
HasIdAttribute(content, sid) ==
    content.kind = "html" /\ \E e \in 1..Len(content.spans) : content.spans[e].id = sid

\* the context _extract_text_from_kobo_span_content_only cuts around the span
\* text in the text of the block that holds it: the span text alone when the
\* cut is shorter than 100 characters
ExtendedContext(full_text, span_text) ==
    LET span_pos == Find(full_text, span_text)
        start_pos == IF span_pos - 300 > 0 THEN span_pos - 300 ELSE 0
        end_pos == IF span_pos + Len(span_text) + 300 < Len(full_text)
                   THEN span_pos + Len(span_text) + 300 ELSE Len(full_text)
        cut == IF span_pos >= 0 THEN Strip(SubSeq(full_text, start_pos + 1, end_pos))
               ELSE SubSeq(full_text, 1, IF Len(full_text) < 800 THEN Len(full_text) ELSE 800)
    IN  IF Len(cut) < 100 THEN span_text ELSE cut

\* the span info made with BeautifulSoup
SoupSpanInfo(file_path, span_text, extended_context) ==
    [file |-> file_path,
     text |-> IF Len(extended_context) > Len(span_text) + 50
              THEN extended_context ELSE span_text,
     context |-> extended_context, text_sample |-> span_text]

\* the span info of a span element
SpanInfo(content, span_element, file_path, has_bs4) ==
    IF has_bs4
    THEN SoupSpanInfo(file_path, Strip(span_element.text),
                      ExtendedContext(span_element.block, Strip(span_element.text)))
    ELSE [file |-> file_path, text |-> Strip(span_element.text),
          context |-> Strip(content.text), text_sample |-> Strip(span_element.text)]

\* _extract_text_from_kobo_span_content_only on the first span element with
\* the id (soup.find('span', id=span_id), or the regex
\* <span[^>]*id="..."[^>]*>(.*?)</span> without BeautifulSoup); None when the
\* id belongs to no span element.  With BeautifulSoup the context is cut from
\* the text of the nearest block ancestor (the block field of the element);
\* without it, from the 500 characters on either side of the match, which is
\* the whole text of a file shorter than that.
ExtractTextFromKoboSpanContentOnly(content, sid, file_path, has_bs4) ==
    LET hits == {e \in 1..Len(content.spans) :
                    content.spans[e].id = sid /\ content.spans[e].tag = "span"}
    IN  IF hits = {} THEN None
        ELSE Some(SpanInfo(content, content.spans[Least(hits)], file_path, has_bs4))

\* the content_paths loop: the first of content_file and
\* dirname(opf_path)/content_file that the archive holds
ContentPath(zip, opf_path, content_file) ==
    IF ZipHas(zip, content_file) THEN Some(content_file)
    ELSE IF ZipHas(zip, PathJoin(Dirname(opf_path), content_file))
    THEN Some(PathJoin(Dirname(opf_path), content_file))
    ELSE None

\* bool(content) of a file read from the archive
NonEmptyContent(content) == content.kind # "empty"

\* the file of a spine item: None when the manifest does not hold the id or the
\* archive does not hold the file
SpinePath(zip, opf_path, manifest, spine_item) ==
    IF DictHas(manifest, spine_item)
    THEN ContentPath(zip, opf_path, DictGet(manifest, spine_item))
    ELSE None

\* the span info found in the content of one file, or None
SpanInContent(content, sid, actual_path, has_bs4) ==
    IF NonEmptyContent(content) /\ HasIdAttribute(content, sid)
    THEN ExtractTextFromKoboSpanContentOnly(content, sid, actual_path, has_bs4)
    ELSE None

\* what one spine file adds to all_matches
FileMatches(file_index, spine_order, actual_path, info) ==
    IF IsNone(info) THEN <<>>
    ELSE <<[file |-> actual_path,
            file_index |-> file_index,
            file_position_percent |->
                RMul(RDiv(RInt(file_index), RInt(Len(spine_order))), RInt(100)),
            span_info |-> Val(info)]>>

\* one pass of the loop body, for the file at actual_path (None when there is
\* no file to read)
MatchesAt(zip, sid, spine_order, file_index, actual_path, has_bs4) ==
    IF IsNone(actual_path) THEN <<>>
    ELSE FileMatches(file_index, spine_order, Val(actual_path),
                     SpanInContent(ZipRead(zip, Val(actual_path)), sid, Val(actual_path),
                                   has_bs4))

\* the loop over enumerate(spine_order) that fills all_matches
RECURSIVE CollectMatches(_, _, _, _, _, _, _)
CollectMatches(zip, sid, opf_path, spine_order, manifest, file_index, has_bs4) ==
    IF file_index >= Len(spine_order) THEN <<>>
    ELSE MatchesAt(zip, sid, spine_order, file_index,
                   SpinePath(zip, opf_path, manifest, spine_order[file_index + 1]), has_bs4)
             \o CollectMatches(zip, sid, opf_path, spine_order, manifest, file_index + 1,
                               has_bs4)

\* all_matches once _find_opf_file has returned
AllMatchesAt(zip, sid, opf_path, opf, has_bs4) ==
    Some(CollectMatches(zip, sid, opf_path, opf[1], opf[2], 0, has_bs4))

\* all_matches of _find_span_in_kepub; None when it returns before the loop
AllMatches(zip, sid, has_bs4) ==
    IF IsNone(FindOpfFile(zip)) \/ ~ZipHas(zip, Val(FindOpfFile(zip))) THEN None
    ELSE AllMatchesAt(zip, sid, Val(FindOpfFile(zip)),
                      ParseOpf(ZipRead(zip, Val(FindOpfFile(zip)))), has_bs4)

\* min(matches, key=lambda m: abs(m['file_position_percent'] - progress)): the
\* first match of least distance
RECURSIVE ClosestMatch(_, _)
ClosestMatch(matches, progress) ==
    IF Len(matches) = 1 THEN matches[1]
    ELSE LET rest == ClosestMatch(Tail(matches), progress)
             key(m) == RAbs(RSub(m.file_position_percent, progress))
         IN  IF RLess(key(rest), key(matches[1])) THEN rest ELSE matches[1]

ContentKeywords == { <<"c","h","a","p","t","e","r">>, <<"c","o","n","t","e","n","t">>,
                     <<"t","e","x","t">>, <<"p","a","r","t">> }

\* mutant of BestMatch: the first occurrence, whatever the progress
BestMatch_First(matches, progress) == matches[1]

\* the choice _find_span_in_kepub makes among a non-empty all_matches
BestMatch(matches, progress) ==
    IF ~IsNone(progress) /\ Len(matches) > 1
    THEN ClosestMatch(matches, Val(progress))
    ELSE LET content_matches ==
                 SelectSeq(matches, LAMBDA m :
                     \E keyword \in ContentKeywords : Contains(Lower(m.file), keyword))
         IN  IF Len(content_matches) > 0 THEN content_matches[1] ELSE matches[1]

\* the span_info of the occurrence chosen among all_matches, or None
ChosenSpan(found, progress) ==
    IF IsNone(found) \/ Len(Val(found)) = 0 THEN None
    ELSE Some(BestMatch(Val(found), progress).span_info)

\* _find_span_in_kepub: the span_info of the chosen occurrence, or None
FindSpanInKepub(zip, sid, progress, has_bs4) ==
    ChosenSpan(AllMatches(zip, sid, has_bs4), progress)

-----------------------------------------------------------------------------
(* Inputs of the span locator *)

MaxSpanFiles == 3       \* longest spine whose files are drawn freely
MaxLongSpanFiles == 10  \* longest spine of the two-occurrence family

sKoboSpan == <<"k","o","b","o",".","5",".","1","2">>
sCoverHref == <<"c","o","v","e","r",".","h","t","m","l">>
sChapterLc == <<"c","h","a","p","t","e","r">>
sDotHtml == <<".","h","t","m","l">>

\* a content file of a KEPUB drawn freely: the id on a span element, on
\* another element, or on no element.  ("both": on another element and then
\* on a span; "empty": an empty file.)
SpanFileKinds == {"span", "other", "none"}

SpanText(k) == <<" ", "t">> \o FormatNat(k) \o <<" ">>

SpanDoc(kind, k) ==
    IF kind = "empty" THEN [kind |-> "empty"]
    ELSE [kind |-> "html", nav |-> None, text |-> SpanText(k),
          spans |-> (IF kind \in {"other", "both"}
                     THEN <<[id |-> sKoboSpan, tag |-> "p", text |-> SpanText(k),
                             block |-> SpanText(k)]>>
                     ELSE <<>>)
                    \o (IF kind \in {"span", "both"}
                        THEN <<[id |-> sKoboSpan, tag |-> "span", text |-> SpanText(k),
                                block |-> SpanText(k)]>>
                        ELSE <<>>)]

\* file names: c1.html, c2.html, ... or cover.html, chapter2.html, ...
SpanHref(scheme, k) ==
    IF scheme = "plain" THEN ItemHref(k)
    ELSE IF k = 1 THEN sCoverHref
    ELSE sChapterLc \o FormatNat(k) \o sDotHtml

\* A KEPUB whose manifest holds one content file per entry of kinds; itemrefs
\* is its spine and dir the directory of the package descriptor.
MkKepub(dir, scheme, kinds, itemrefs) ==
    [readable |-> TRUE,
     container |-> None,
     entries |-> <<[name |-> PathJoin(dir, sContentOpf),
                    doc |-> [kind |-> "opf", wellformed |-> TRUE,
                             items |-> [k \in 1..Len(kinds) |->
                                           Item(ItemId(k), SpanHref(scheme, k))],
                             itemrefs |-> itemrefs]]>>
                 \o [k \in 1..Len(kinds) |->
                        [name |-> PathJoin(dir, SpanHref(scheme, k)),
                         doc |-> SpanDoc(kinds[k], k)]]]

InOrder(n) == [k \in 1..n |-> Some(ItemId(k))]

\* spines of n files of which exactly the a-th and b-th hold the span
TwoOccurrences(n, a, b) == [k \in 1..n |-> IF k \in {a, b} THEN "span" ELSE "none"]

Kepubs ==
    {MkKepub(<<>>, scheme, kinds, InOrder(Len(kinds))) :
        scheme \in {"plain", "named"},
        kinds \in UNION {[1..n -> SpanFileKinds] : n \in 1..MaxSpanFiles}}
    \cup {MkKepub(<<>>, "plain", TwoOccurrences(q[1], q[2], q[3]), InOrder(q[1])) :
            q \in {r \in ((MaxSpanFiles + 1)..MaxLongSpanFiles)
                             \X (1..MaxLongSpanFiles) \X (1..MaxLongSpanFiles) :
                      r[2] < r[3] /\ r[3] <= r[1]}}
    \cup {MkKepub(sOebps, "named", <<"span", "span", "span">>, InOrder(3)),
          \* a spine id the manifest does not hold, an itemref without idref
          MkKepub(<<>>, "plain", <<"span", "span">>,
                  <<Some(sGhostId), Some(ItemId(1)), None, Some(ItemId(2))>>),
          \* the same file twice in the spine
          MkKepub(<<>>, "plain", <<"span", "none", "span">>,
                  <<Some(ItemId(1)), Some(ItemId(2)), Some(ItemId(1)), Some(ItemId(3))>>),
          MkKepub(<<>>, "plain", <<"empty", "span", "span">>, InOrder(3)),
          MkKepub(<<>>, "plain", <<"both", "other", "span">>, InOrder(3)),
          [readable |-> TRUE, container |-> None, entries |-> <<>>],
          [readable |-> TRUE, container |-> Some(<<Some(sContentOpf)>>), entries |-> <<>>]}

\* the progress Kobo reports, in percent
ReportedProgress ==
    {None} \cup {Some(RInt(n)) : n \in {-5, 0, 10, 25, 40, 100, 250}} \cup {Some(Rat(46, 10))}

-----------------------------------------------------------------------------
(* Specification of the span locator *)

InitSpan ==
    /\ kepub \in {Some(k) : k \in Kepubs}
    /\ span_id = Some(sKoboSpan)
    /\ progress_percent \in ReportedProgress
    /\ HAS_BEAUTIFULSOUP \in BOOLEAN
    /\ all_matches = None /\ span_info = None
    /\ pc = "find_span"
    /\ ClassifyIdle /\ ArchiveIdle /\ CodecIdle /\ SyncIdle /\ DriveIdle /\ SearchIdle

\* _find_span_in_kepub on the opened KEPUB
FindSpan ==
    /\ pc = "find_span"
    /\ all_matches' = AllMatches(Val(kepub), Val(span_id), HAS_BEAUTIFULSOUP)
    /\ span_info' = FindSpanInKepub(Val(kepub), Val(span_id), progress_percent,
                                    HAS_BEAUTIFULSOUP)
    /\ pc' = "span_searched"
    /\ UNCHANGED <<kepub, span_id, progress_percent, HAS_BEAUTIFULSOUP,
                   classifyVars, archiveVars, codecVars, syncVars, driveVars,
                   searchVars>>

NextSpan == FindSpan

SpecSpan == InitSpan /\ [][NextSpan]_vars

-----------------------------------------------------------------------------
(* Properties of the span locator *)

SpanSearched == pc = "span_searched"

\* the package descriptor of the searched KEPUB is found and read
KepubOpened ==
    ~IsNone(FindOpfFile(Val(kepub))) /\ ZipHas(Val(kepub), Val(FindOpfFile(Val(kepub))))

\* <<spine_order, manifest>> as the package descriptor lists them
KepubPackage == ParseOpf(ZipRead(Val(kepub), Val(FindOpfFile(Val(kepub)))))

\* the archive entry the spine names at (0-based) index i, or None
SpineFile(package, i) ==
    IF DictHas(package[2], package[1][i + 1])
    THEN ContentPath(Val(kepub), Val(FindOpfFile(Val(kepub))),
                     DictGet(package[2], package[1][i + 1]))
    ELSE None

\* the span id is found in file: it holds a span element with that id
FoundIn(file) ==
    /\ ~IsNone(file)
    /\ LET content == ZipRead(Val(kepub), Val(file)) IN
       /\ content.kind = "html"
       /\ \E e \in 1..Len(content.spans) :
             content.spans[e].id = Val(span_id) /\ content.spans[e].tag = "span"

\* the spine indexes at which the span id is found
Occurrences(package) ==
    {i \in 0..(Len(package[1]) - 1) : FoundIn(SpineFile(package, i))}

\* |i / spine_length * 100 - progress|, scaled by spine_length * progress[2]
ScaledDistance(i, spine_length) ==
    Abs(100 * i * Val(progress_percent)[2] - Val(progress_percent)[1] * spine_length)

\* C9: with a reported progress and the span id found in more than one spine
\* file, _find_span_in_kepub returns the occurrence whose spine position
\* file_index / spine_length * 100 is closest to the progress.
C9_ClosestToProgress ==
    (SpanSearched /\ ~IsNone(progress_percent) /\ KepubOpened) =>
        LET package == KepubPackage
            found == Occurrences(package)
        IN  Cardinality(found) > 1 =>
              /\ ~IsNone(span_info)
              /\ \E i \in found :
                    /\ Val(span_info).file = Val(SpineFile(package, i))
                    /\ \A j \in found : ScaledDistance(i, Len(package[1]))
                                           <= ScaledDistance(j, Len(package[1]))

\* the scenario: found at spine index 1 of 10 and 4 of 10, progress 40%, the
\* occurrence at index 4 (file c5.html) is returned
C9_Witness ==
    /\ SpanSearched
    /\ progress_percent = Some(RInt(40))
    /\ KepubOpened
    /\ Len(KepubPackage[1]) = 10
    /\ Occurrences(KepubPackage) = {1, 4}
    /\ Val(span_info).file = ItemHref(5)

-----------------------------------------------------------------------------
(* Position Codec: string scanning and formatting *)

\* s.split(c) for a one-character separator
RECURSIVE Split(_, _)
Split(s, c) ==
    IF \A i \in 1..Len(s) : s[i] # c THEN <<s>>
    ELSE LET e == CHOOSE i \in 1..Len(s) : s[i] = c /\ \A j \in 1..(i-1) : s[j] # c
         IN  <<SubSeq(s, 1, e - 1)>> \o Split(SubSeq(s, e + 1, Len(s)), c)

\* s.count(c) for a one-character c
Count(s, c) == Cardinality({i \in 1..Len(s) : s[i] = c})

\* the digits \d+ takes at (1-based) index i: the longest run, maybe empty
RECURSIVE DigitsAt(_, _)
DigitsAt(s, i) ==
    IF i <= Len(s) /\ IsDigit(s[i]) THEN <<s[i]>> \o DigitsAt(s, i + 1) ELSE <<>>

\* re.search(r'<lit>(\d+)', s).group(1) for the literals lits (all of length
\* n), or None
SearchDigitsAfter(s, lits, n) ==
    LET hits == {i \in 1..Len(s) :
                    /\ \E lit \in lits : OccursAt(s, lit, i)
                    /\ Len(DigitsAt(s, i + n)) > 0}
    IN  IF hits = {} THEN None ELSE Some(DigitsAt(s, Least(hits) + n))

\* (\d+)\.(\d+) matched at index i: the two groups, or None
KoboPairAt(s, i) ==
    LET x == DigitsAt(s, i)
        y == DigitsAt(s, i + Len(x) + 1)
    IN  IF Len(x) > 0 /\ i + Len(x) <= Len(s) /\ s[i + Len(x)] = "." /\ Len(y) > 0
        THEN Some(<<x, y>>) ELSE None

sKoboDot == <<"k","o","b","o",".">>
sHashKoboDot == <<"#","k","o","b","o",".">>
sChapterUc == <<"C","h","a","p","t","e","r">>
sSplit == <<"_","s","p","l","i","t","_">>
sHtmlExt == <<".","h","t","m","l">>
sXhtmlExt == <<".","x","h","t","m","l">>

\* re.match(r'kobo\.(\d+)\.(\d+)', s)
MatchKoboSpan(s) == IF StartsWith(s, sKoboDot) THEN KoboPairAt(s, Len(sKoboDot) + 1) ELSE None

\* re.search(r'#kobo\.(\d+)\.(\d+)', s)
SearchKoboFragment(s) ==
    LET hits == {i \in 1..Len(s) :
                    OccursAt(s, sHashKoboDot, i)
                    /\ ~IsNone(KoboPairAt(s, i + Len(sHashKoboDot)))}
    IN  IF hits = {} THEN None ELSE KoboPairAt(s, Least(hits) + Len(sHashKoboDot))

\* re.search(r'/(\d+)\.x?html', s).group(1)
SearchNumberedFile(s) ==
    LET hits == {i \in 1..Len(s) :
                    /\ s[i] = "/"
                    /\ Len(DigitsAt(s, i + 1)) > 0
                    /\ \/ OccursAt(s, sHtmlExt, i + 1 + Len(DigitsAt(s, i + 1)))
                       \/ OccursAt(s, sXhtmlExt, i + 1 + Len(DigitsAt(s, i + 1)))}
    IN  IF hits = {} THEN None ELSE Some(DigitsAt(s, Least(hits) + 1))

\* str(n) of an integer
FormatInt(n) == IF n < 0 THEN <<"-">> \o FormatNat(-n) ELSE FormatNat(n)

\* f"{n:02d}" for n >= 0
FormatTwoDigits(n) == IF n < 10 THEN <<"0">> \o FormatNat(n) ELSE FormatNat(n)

\* round(10 * |x|) with ties to even
RoundTenths(x) ==
    LET n == Abs(x[1])
        t == (10 * n) \div x[2]
        rem == 10 * n - t * x[2]
    IN  IF 2 * rem > x[2] THEN t + 1
        ELSE IF 2 * rem < x[2] THEN t
        ELSE IF t % 2 = 0 THEN t ELSE t + 1

\* f"{x:.1f}"
FormatFixed1(x) ==
    (IF x[1] < 0 THEN <<"-">> ELSE <<>>)
        \o FormatNat(RoundTenths(x) \div 10) \o <<".">> \o FormatNat(RoundTenths(x) % 10)

-----------------------------------------------------------------------------
(* Position Codec: parsing of the Kobo location *)

\* parse_kobo_location_with_source: None, or the span numbers with the chapter
\* or split number read from the source file name
ParseKoboLocationWithSource(location_value, location_source) ==
    LET span_match == MatchKoboSpan(location_value) IN
    IF IsNone(span_match) THEN None
    ELSE LET source == IF Truthy(location_source) THEN Val(location_source) ELSE <<>>
             is_chapter == Contains(source, sChapterUc)
             is_split == ~is_chapter /\ Contains(source, sSplit)
             chapter_match == SearchDigitsAfter(source, {sChapterUc}, Len(sChapterUc))
             split_match == SearchDigitsAfter(source, {sSplit}, Len(sSplit))
         IN  Some([span_x |-> ToInt(Val(span_match)[1]),
                   span_y |-> ToInt(Val(span_match)[2]),
                   source_chapter |-> IF is_chapter /\ ~IsNone(chapter_match)
                                      THEN Some(ToInt(Val(chapter_match))) ELSE None,
                   source_split |-> IF is_split /\ ~IsNone(split_match)
                                    THEN Some(ToInt(Val(split_match))) ELSE None])

\* the "simple kobo.X.Y format" test shared by _parse_kobo_location and
\* _parse_kobo_span_location
IsSimpleKoboSpan(kobo_location) ==
    /\ StartsWith(kobo_location, sKoboDot)
    /\ Count(kobo_location, ".") = 2
    /\ LET parts == Split(kobo_location, ".") IN
       Len(parts) = 3 /\ IsDigits(parts[2]) /\ IsDigits(parts[3])

\* _parse_kobo_location: <<chapter_num or None, position>>
ParseKoboLocation(kobo_location) ==
    IF Contains(kobo_location, <<"!">>)
    THEN LET file_part == Split(kobo_location, "!")[2]
             chapter_match == SearchDigitsAfter(file_part,
                                  {sChapterUc, Lower(sChapterUc)}, Len(sChapterUc))
             file_match == SearchNumberedFile(file_part)
             kobo_match == SearchKoboFragment(kobo_location)
         IN  << IF ~IsNone(chapter_match) THEN Some(ToInt(Val(chapter_match)) - 1)
                ELSE IF ~IsNone(file_match) THEN Some(ToInt(Val(file_match)))
                ELSE Some(0),
                IF ~IsNone(kobo_match) THEN ToInt(Val(kobo_match)[2]) ELSE 0 >>
    ELSE IF IsSimpleKoboSpan(kobo_location)
    THEN LET parts == Split(kobo_location, ".")
         IN  <<Some(ToInt(parts[2]) - 1), ToInt(parts[3])>>
    ELSE IF Contains(kobo_location, <<"/">>) /\ IsDigits(Split(kobo_location, "/")[1])
    THEN LET parts == Split(kobo_location, "/")
         IN  <<Some(ToInt(parts[1]) - 1), IF IsDigits(parts[2]) THEN ToInt(parts[2]) ELSE 0>>
    ELSE <<None, 0>>

\* _parse_kobo_span_location: the span id named by the location, or None
ParseKoboSpanLocation(kobo_location) ==
    IF IsSimpleKoboSpan(kobo_location) THEN Some(kobo_location)
    ELSE LET kobo_match == SearchKoboFragment(kobo_location) IN
         IF ~IsNone(kobo_match)
         THEN Some(sKoboDot \o Val(kobo_match)[1] \o <<".">> \o Val(kobo_match)[2])
         ELSE None

-----------------------------------------------------------------------------
(* Book files: BookAnalyzer.get_book_files.                                *)
(*                                                                         *)
(* A book is None or [title, data, dir]: data lists the [format, name] of  *)
(* its Data rows, dir is the listing of its library directory as a         *)
(* sequence of [name, zip], or None when the library or the directory is   *)
(* not found.  The result maps 'epub' and 'kepub' to a file name or None.  *)

sEpub == <<"e","p","u","b">>
sKepub == <<"k","e","p","u","b">>
sDotEpub == <<".","e","p","u","b">>
sDotKepub == <<".","k","e","p","u","b">>
sDotKepubEpub == <<".","k","e","p","u","b",".","e","p","u","b">>

DirHas(dir, name) == \E i \in 1..Len(dir) : dir[i].name = name

\* zipfile.ZipFile(path): the archive stored under the name
OpenZip(book, name) ==
    Val(book).dir[1][CHOOSE i \in 1..Len(Val(book).dir[1]) : Val(book).dir[1][i].name = name].zip

\* the loop over book.data
RECURSIVE FilesFromData(_, _, _)
FilesFromData(data, dir, file_paths) ==
    IF Len(data) = 0 THEN file_paths
    ELSE LET data_entry == Head(data)
             format_name == Lower(data_entry.format)
             possible_filenames ==
                 IF format_name = sKepub
                 THEN <<data_entry.name \o sDotKepubEpub, data_entry.name \o sDotKepub>>
                 ELSE <<data_entry.name \o <<".">> \o format_name>>
             found == {i \in 1..Len(possible_filenames) : DirHas(dir, possible_filenames[i])}
             next_paths ==
                 IF format_name \in {sEpub, sKepub} /\ found # {}
                 THEN IF format_name = sEpub
                      THEN [file_paths EXCEPT !.epub = Some(possible_filenames[Least(found)])]
                      ELSE [file_paths EXCEPT !.kepub = Some(possible_filenames[Least(found)])]
                 ELSE file_paths
         IN  FilesFromData(Tail(data), dir, next_paths)

\* the directory scan used when the Data rows gave nothing
RECURSIVE FilesFromScan(_, _)
FilesFromScan(listing, file_paths) ==
    IF Len(listing) = 0 THEN file_paths
    ELSE LET lower_filename == Lower(Head(listing).name)
             next_paths ==
                 IF EndsWith(lower_filename, sDotEpub) /\ IsNone(file_paths.epub)
                 THEN [file_paths EXCEPT !.epub = Some(Head(listing).name)]
                 ELSE IF (EndsWith(lower_filename, sDotKepubEpub)
                           \/ EndsWith(lower_filename, sDotKepub))
                         /\ IsNone(file_paths.kepub)
                 THEN [file_paths EXCEPT !.kepub = Some(Head(listing).name)]
                 ELSE file_paths
         IN  FilesFromScan(Tail(listing), next_paths)

NoFiles == [epub |-> None, kepub |-> None]

GetBookFiles(book) ==
    IF IsNone(book) \/ IsNone(Val(book).dir) THEN NoFiles
    ELSE LET from_data == FilesFromData(Val(book).data, Val(Val(book).dir), NoFiles) IN
         IF from_data # NoFiles THEN from_data
         ELSE FilesFromScan(Val(Val(book).dir), NoFiles)

\* get_book_format (moonreader_sync.py)
GetBookFormat(book) ==
    IF \E i \in 1..Len(Val(book).data) : Lower(Val(book).data[i].format) = sKepub
    THEN "kepub" ELSE "epub"

-----------------------------------------------------------------------------
(* Text Matcher: extract_text_from_kepub, search_text_in_epub.             *)
(*                                                                         *)
(* The text field of an "html" document is what _strip_html_tags makes of  *)
(* the file: its text with the whitespace normalised.                      *)

\* the TextSample made of a span info, or None
TextSample(info) ==
    IF IsNone(info) THEN None
    ELSE Some([text |-> Val(info).text, surrounding_context |-> Val(info).context])

\* extract_text_from_kepub for the span id the location names
ExtractSpanText(zip, sid, progress, has_bs4) ==
    IF IsNone(sid) THEN None
    ELSE TextSample(FindSpanInKepub(zip, Val(sid), progress, has_bs4))

\* extract_text_from_kepub: None, or TextSample as [text, surrounding_context]
ExtractTextFromKepub(zip, kobo_location, progress, has_bs4) ==
    IF ~zip.readable THEN None
    ELSE ExtractSpanText(zip, ParseKoboSpanLocation(kobo_location), progress, has_bs4)

\* ' '.join(words)
RECURSIVE Join(_)
Join(words) ==
    IF Len(words) = 0 THEN <<>>
    ELSE IF Len(words) = 1 THEN words[1]
    ELSE words[1] \o <<" ">> \o Join(Tail(words))

\* the words a[i .. i+k-1] and b[j .. j+k-1] are the same
SameBlock(a, i, b, j, k) ==
    i + k - 1 <= Len(a) /\ j + k - 1 <= Len(b) /\ SubSeq(a, i, i + k - 1) = SubSeq(b, j, j + k - 1)

\* difflib.SequenceMatcher(None, a, b).find_longest_match over the whole of
\* both: [a, size] of the longest common block, the earliest in a among the
\* longest (a is 1-based here)
FindLongestMatch(a, b) ==
    LET sizes == {k \in 0..Len(b) :
                     k = 0 \/ \E i \in 1..Len(a) : \E j \in 1..Len(b) : SameBlock(a, i, b, j, k)}
        size == CHOOSE k \in sizes : \A l \in sizes : l <= k
    IN  [a |-> IF size = 0 THEN 1
               ELSE Least({i \in 1..Len(a) : \E j \in 1..Len(b) : SameBlock(a, i, b, j, size)}),
         size |-> size]

\* s.count(p): the non-overlapping occurrences of p, found left to right
RECURSIVE CountSub(_, _)
CountSub(s, p) ==
    IF Find(s, p) = -1 THEN 0
    ELSE 1 + CountSub(SubSeq(s, Find(s, p) + Len(p) + 1, Len(s)), p)

\* the start of the longest common block of words, when it covers more than
\* 60% of the target words, else -1
BlockPosition(plain_text, words, target_words, match) ==
    IF 10 * match.size > 6 * Len(target_words)
    THEN Find(plain_text, Join(SubSeq(words, match.a, match.a + match.size - 1)))
    ELSE -1

\* the fuzzy search of _search_text_in_html
FuzzyPosition(plain_text, words, target_words) ==
    BlockPosition(plain_text, words, target_words, FindLongestMatch(words, target_words))

\* the position of the target: that of the exact match, else that of the
\* fuzzy match of a target of more than 20 characters
TextPosition(plain_text, target_text, exact) ==
    IF exact = -1 /\ Len(target_text) > 20
    THEN FuzzyPosition(plain_text, SplitWords(plain_text), SplitWords(target_text))
    ELSE exact

\* the paragraph of a position: the paragraph breaks before it, plus one
ParagraphOf(text_before) ==
    CountSub(text_before, <<"\n", "\n">>) + CountSub(text_before, <<"\n", " ", "\n">>) + 1

\* the match of _search_text_in_html at a position, None for -1
MatchInfo(plain_text, position) ==
    IF position = -1 THEN None
    ELSE Some([position |-> position,
               paragraph |-> ParagraphOf(SubSeq(plain_text, 1, position))])

\* _search_text_in_html: None, or [position, paragraph]
SearchTextInHtml(content, target_text) ==
    MatchInfo(content.text,
              TextPosition(content.text, target_text, Find(content.text, target_text)))

\* the PositionInfo of the code
PositionInfo(chapter, paragraph, character_offset, chapter_progress) ==
    [chapter |-> chapter, paragraph |-> paragraph, character_offset |-> character_offset,
     chapter_progress |-> chapter_progress, part |-> None, chapter_in_part |-> None,
     is_part_header |-> FALSE]

\* the PositionInfo search_text_in_epub makes of a match in a chapter file
FoundPosition(chapter_idx, match_info, file_length) ==
    IF IsNone(match_info) THEN None
    ELSE Some(PositionInfo(chapter_idx, Val(match_info).paragraph, Val(match_info).position,
                           RMin(IF file_length > 0
                                THEN RMul(Rat(Val(match_info).position, file_length),
                                          RInt(100))
                                ELSE RInt(0),
                                RInt(100))))

\* the search in the content of one chapter file
SearchContent(content, target_text, chapter_idx) ==
    IF content.kind = "html"
    THEN FoundPosition(chapter_idx, SearchTextInHtml(content, target_text), Len(content.text))
    ELSE None

\* the search in the chapter file at path (None when there is no file to read)
SearchFile(zip, path, target_text, chapter_idx) ==
    IF IsNone(path) THEN None
    ELSE SearchContent(ZipRead(zip, Val(path)), target_text, chapter_idx)

\* the first of two results that is one
FirstFound(found, otherwise) == IF ~IsNone(found) THEN found ELSE otherwise

\* mutant of SearchSpine: a match in a later file is preferred
RECURSIVE SearchSpine_LastFound(_, _, _, _, _, _)
SearchSpine_LastFound(zip, opf_path, spine_order, manifest, target_text, chapter_idx) ==
    IF chapter_idx >= Len(spine_order) THEN None
    ELSE FirstFound(SearchSpine_LastFound(zip, opf_path, spine_order, manifest, target_text,
                                          chapter_idx + 1),
                    SearchFile(zip,
                               SpinePath(zip, opf_path, manifest, spine_order[chapter_idx + 1]),
                               target_text, chapter_idx))

\* the loop of search_text_in_epub over enumerate(spine_order)
RECURSIVE SearchSpine(_, _, _, _, _, _)
SearchSpine(zip, opf_path, spine_order, manifest, target_text, chapter_idx) ==
    IF chapter_idx >= Len(spine_order) THEN None
    ELSE FirstFound(SearchFile(zip,
                               SpinePath(zip, opf_path, manifest, spine_order[chapter_idx + 1]),
                               target_text, chapter_idx),
                    SearchSpine(zip, opf_path, spine_order, manifest, target_text,
                                chapter_idx + 1))

\* search_text_in_epub once the package descriptor is parsed
SearchParsedEpub(zip, opf_path, opf, target_text) ==
    SearchSpine(zip, opf_path, opf[1], opf[2], target_text, 0)

\* search_text_in_epub
SearchTextInEpub(zip, target_text, has_bs4) ==
    IF IsNone(AnalyzeEpubStructure(zip, has_bs4)) THEN None
    ELSE SearchParsedEpub(zip, Val(FindOpfFile(zip)),
                          ParseOpf(ZipRead(zip, Val(FindOpfFile(zip)))), target_text)

-----------------------------------------------------------------------------
(* Position mapping: map_kobo_position_to_epub and its fallbacks *)

\* mutant of WithPartChapter: a part header keeps the chapter of the match
WithPartChapter_KeepsChapter(epub_position, part_chapter_info) ==
    IF part_chapter_info.is_part_header
    THEN Some([epub_position EXCEPT
                  !.part = Some(part_chapter_info.part),
                  !.chapter_in_part = Some(0),
                  !.is_part_header = TRUE])
    ELSE Some([epub_position EXCEPT
                  !.chapter = part_chapter_info.chapter,
                  !.part = Some(part_chapter_info.part),
                  !.chapter_in_part = Some(part_chapter_info.chapter),
                  !.is_part_header = FALSE])

\* the position with the part and the chapter of its entry in the mapping
WithPartChapter(epub_position, part_chapter_info) ==
    IF part_chapter_info.is_part_header
    THEN Some([epub_position EXCEPT
                  !.chapter = 0,
                  !.part = Some(part_chapter_info.part),
                  !.chapter_in_part = Some(0),
                  !.is_part_header = TRUE])
    ELSE Some([epub_position EXCEPT
                  !.chapter = part_chapter_info.chapter,
                  !.part = Some(part_chapter_info.part),
                  !.chapter_in_part = Some(part_chapter_info.chapter),
                  !.is_part_header = FALSE])

\* _enhance_position_with_part_chapter once the mapping is built
EnhanceWithMapping(epub_position, part_chapter_mapping) ==
    IF epub_position.chapter >= 0 /\ epub_position.chapter < Len(part_chapter_mapping)
    THEN WithPartChapter(epub_position, part_chapter_mapping[epub_position.chapter + 1])
    ELSE None

\* the chapter titles the mapping is built from
ChapterTitles(chapters) == [i \in 1..Len(chapters) |-> chapters[i].title]

\* _enhance_position_with_part_chapter once the EPUB is analyzed
EnhanceWithStructure(epub_position, epub_structure) ==
    IF IsNone(epub_structure) THEN None
    ELSE EnhanceWithMapping(epub_position,
                            BuildPartChapterMapping(ChapterTitles(Val(epub_structure).chapters)))

\* _enhance_position_with_part_chapter
EnhancePositionWithPartChapter(epub_position, zip, has_bs4) ==
    EnhanceWithStructure(epub_position, AnalyzeEpubStructure(zip, has_bs4))

\* mutant of StructuralProgress: the offset is scaled without the upper clamp
StructuralProgress_Unclamped(position) ==
    IF position > 100 THEN RMul(Rat(position, 10000), RInt(100))
    ELSE RMul(Rat(position, 100), RInt(100))

\* the chapter_progress of _fallback_structural_mapping
StructuralProgress(position) ==
    IF position > 100 THEN RMin(RMul(Rat(position, 10000), RInt(100)), RInt(100))
    ELSE RMin(RMul(Rat(position, 100), RInt(100)), RInt(100))

\* the PositionInfo of _fallback_structural_mapping: the chapter is
\* min(chapter_num, total_chapters - 1)
StructuralPosition(chapter_num, position, total_chapters) ==
    PositionInfo(IF total_chapters - 1 < chapter_num THEN total_chapters - 1 ELSE chapter_num,
                 position \div 50, position % 50, StructuralProgress(position))

\* _fallback_structural_mapping once the location is parsed
MapParsedLocation(location, total_chapters) ==
    IF IsNone(location[1]) THEN None
    ELSE Some(StructuralPosition(Val(location[1]), location[2], total_chapters))

\* _fallback_structural_mapping once both files are analyzed
MapStructures(kobo_location, kepub_structure, epub_structure) ==
    IF IsNone(kepub_structure) \/ IsNone(epub_structure) THEN None
    ELSE MapParsedLocation(ParseKoboLocation(kobo_location),
                           Val(epub_structure).total_chapters)

\* _fallback_structural_mapping
FallbackStructuralMapping(kobo_location, book, file_paths, has_bs4) ==
    IF IsNone(file_paths.kepub) \/ IsNone(file_paths.epub) THEN None
    ELSE MapStructures(kobo_location,
                       AnalyzeKepubStructure(OpenZip(book, Val(file_paths.kepub))),
                       AnalyzeEpubStructure(OpenZip(book, Val(file_paths.epub)), has_bs4))

\* mutant of MiddleContext: the first half of the context
MiddleContext_FirstHalf(context_words) ==
    Join(SubSeq(context_words, 1, Len(context_words) \div 2))

\* words[len(words)//4 : 3*len(words)//4] of the context, joined by blanks
MiddleContext(context_words) ==
    Join(SubSeq(context_words, (Len(context_words) \div 4) + 1,
                (3 * Len(context_words)) \div 4))

\* the second search of map_kobo_position_to_epub: for the middle of a context
\* of more than 50 characters and more than 10 words
SearchByContext(epub_zip, surrounding_context, context_words, has_bs4) ==
    IF Len(surrounding_context) > 50 /\ Len(context_words) > 10
    THEN SearchTextInEpub(epub_zip, MiddleContext(context_words), has_bs4)
    ELSE None

\* the searches for a text sample: for its text, then for its context
SearchSample(epub_zip, sample, has_bs4) ==
    FirstFound(SearchTextInEpub(epub_zip, sample.text, has_bs4),
               SearchByContext(epub_zip, sample.surrounding_context,
                               SplitWords(sample.surrounding_context), has_bs4))

\* the outcome of map_kobo_position_to_epub when the text search found a
\* position: the enhanced position when there is one
SearchOutcome(found, enhanced_position) ==
    [search |-> found, structural |-> None,
     result |-> IF ~IsNone(enhanced_position) THEN enhanced_position ELSE found]

\* the outcome when _fallback_structural_mapping is called
StructuralOutcome(structural) ==
    [search |-> None, structural |-> structural, result |-> structural]

\* map_kobo_position_to_epub once the searches are made (found is None when
\* there was no text sample to search for)
MapFound(kobo_location, book, file_paths, epub_zip, found, has_bs4) ==
    IF ~IsNone(found)
    THEN SearchOutcome(found, EnhancePositionWithPartChapter(Val(found), epub_zip, has_bs4))
    ELSE StructuralOutcome(FallbackStructuralMapping(kobo_location, book, file_paths, has_bs4))

\* map_kobo_position_to_epub once the text sample is extracted
MapSample(kobo_location, book, file_paths, epub_zip, kepub_text_sample, has_bs4) ==
    MapFound(kobo_location, book, file_paths, epub_zip,
             IF IsNone(kepub_text_sample) THEN None
             ELSE SearchSample(epub_zip, Val(kepub_text_sample), has_bs4),
             has_bs4)

\* map_kobo_position_to_epub once get_book_files has returned
MapWithFiles(kobo_location, book, file_paths, progress, has_bs4) ==
    IF IsNone(file_paths.kepub) \/ IsNone(file_paths.epub)
    THEN [search |-> None, structural |-> None, result |-> None]
    ELSE MapSample(kobo_location, book, file_paths, OpenZip(book, Val(file_paths.epub)),
                   ExtractTextFromKepub(OpenZip(book, Val(file_paths.kepub)), kobo_location,
                                        progress, has_bs4),
                   has_bs4)

\* map_kobo_position_to_epub with the calls it makes: what search_text_in_epub
\* returned (the first search, else the search by context; None when neither
\* was made or found anything), what _fallback_structural_mapping returned
\* (None when it was not called), and the result
MapKoboCalls(kobo_location, book, progress, has_bs4) ==
    MapWithFiles(kobo_location, book, GetBookFiles(book), progress, has_bs4)

\* the second search map_kobo_position_to_epub makes, if any, with its target
ContextSearches(epub_zip, surrounding_context, context_words, has_bs4) ==
    IF Len(surrounding_context) > 50 /\ Len(context_words) > 10
    THEN <<[target |-> MiddleContext(context_words),
            found |-> SearchTextInEpub(epub_zip, MiddleContext(context_words), has_bs4)]>>
    ELSE <<>>

\* the calls of search_text_in_epub for a text sample, in order, first being
\* what the first of them returned
SampleSearches(epub_zip, sample, first, has_bs4) ==
    <<[target |-> sample.text, found |-> first]>>
        \o (IF IsNone(first)
            THEN ContextSearches(epub_zip, sample.surrounding_context,
                                 SplitWords(sample.surrounding_context), has_bs4)
            ELSE <<>>)

\* the text sample map_kobo_position_to_epub extracted and the searches it made
SearchesOfSample(epub_zip, kepub_text_sample, has_bs4) ==
    [sample |-> kepub_text_sample,
     searches |-> IF IsNone(kepub_text_sample) THEN <<>>
                  ELSE SampleSearches(epub_zip, Val(kepub_text_sample),
                                      SearchTextInEpub(epub_zip, Val(kepub_text_sample).text,
                                                       has_bs4),
                                      has_bs4)]

SearchesWithFiles(kobo_location, book, file_paths, progress, has_bs4) ==
    IF IsNone(file_paths.kepub) \/ IsNone(file_paths.epub)
    THEN [sample |-> None, searches |-> <<>>]
    ELSE SearchesOfSample(OpenZip(book, Val(file_paths.epub)),
                          ExtractTextFromKepub(OpenZip(book, Val(file_paths.kepub)),
                                               kobo_location, progress, has_bs4),
                          has_bs4)

\* map_kobo_position_to_epub: the text sample of extract_text_from_kepub and
\* the calls of search_text_in_epub, in order
MapKoboSearches(kobo_location, book, progress, has_bs4) ==
    SearchesWithFiles(kobo_location, book, GetBookFiles(book), progress, has_bs4)

\* map_kobo_position_to_epub: None, or the PositionInfo
MapKoboPositionToEpub(kobo_location, book, progress, has_bs4) ==
    MapKoboCalls(kobo_location, book, progress, has_bs4).result

-----------------------------------------------------------------------------
(* Position Codec, Kobo to Moon+ Reader: kobo_to_moonreader_position.      *)
(*                                                                         *)
(* A reading state is None or [last_modified, current_bookmark]; a         *)
(* bookmark is None or [location_value, location_source, location_type,    *)
(* progress_percent], each field None or Some(value).  A datetime is the   *)
(* decimal string of its milliseconds since the epoch.  The result of a    *)
(* call is Return(value) or Raise(exception name).                         *)

\* bool(x) of an Optional number
NonZero(x) == ~IsNone(x) /\ Val(x) # 0

\* bool(x) of an Optional float
NonZeroFloat(x) == ~IsNone(x) /\ Val(x)[1] # 0

\* max(0.0, min(100.0, x))
Clamp100(x) == RMax(RInt(0), RMin(RInt(100), x))

EstimatedChapters == 50

\* the index of the first NCX entry whose href holds "_split_<n>.html", else
\* "split_<n>", else None
SplitEntry(toc_items, split_number) ==
    LET target_split_file == sSplit \o FormatNat(split_number) \o sHtmlExt
        flexible == Tail(sSplit) \o FormatNat(split_number)
        exact_hits == {i \in 1..Len(toc_items) : Contains(toc_items[i].href, target_split_file)}
        flexible_hits == {i \in 1..Len(toc_items) : Contains(toc_items[i].href, flexible)}
    IN  IF exact_hits # {} THEN Some(Least(exact_hits) - 1)
        ELSE IF flexible_hits # {} THEN Some(Least(flexible_hits) - 1)
        ELSE None

\* map_split_to_chapter once _find_opf_file has returned
SplitInPackage(split_number, zip, opf_path) ==
    IF IsNone(opf_path) \/ ~ZipHas(zip, Val(opf_path)) THEN None
    ELSE SplitEntry(FindNcxToc(zip, ParseOpf(ZipRead(zip, Val(opf_path)))[2], Val(opf_path)),
                    split_number)

\* map_split_to_chapter once the EPUB is opened
SplitInEpub(split_number, zip) ==
    IF ~zip.readable THEN None
    ELSE SplitInPackage(split_number, zip, FindOpfFile(zip))

\* map_split_to_chapter once get_book_files has returned
SplitInFiles(split_number, book, file_paths) ==
    IF IsNone(file_paths.epub) THEN None
    ELSE SplitInEpub(split_number, OpenZip(book, Val(file_paths.epub)))

\* map_split_to_chapter: the index of the NCX entry of the split file, or None
MapSplitToChapter(split_number, book) ==
    SplitInFiles(split_number, book, GetBookFiles(book))

\* the progress within a chapter of the book progress, for a book of
\* total_chapters chapters of equal size
ProgressInChapter(book_progress, chapter, total_chapters) ==
    LET chapter_size_percent == Rat(100, total_chapters)
        chapter_start_percent == RMul(RInt(chapter), chapter_size_percent)
    IN  IF RLess(chapter_start_percent, book_progress)
        THEN Clamp100(RMul(RDiv(RSub(book_progress, chapter_start_percent),
                                chapter_size_percent), RInt(100)))
        ELSE RInt(0)

\* the chapter progress once the EPUB is analyzed
ChapterProgressIn(bookmark, chapter, epub_structure) ==
    IF IsNone(epub_structure) THEN RInt(10)
    ELSE IF Val(epub_structure).total_chapters <= 0 THEN RInt(10)
    ELSE IF IsNone(bookmark.progress_percent) THEN RInt(10)
    ELSE ProgressInChapter(Val(bookmark.progress_percent), chapter,
                           Val(epub_structure).total_chapters)

\* the chapter progress once get_book_files has returned
ChapterProgressWith(bookmark, book, file_paths, chapter, has_bs4) ==
    IF IsNone(file_paths.epub) THEN RInt(10)
    ELSE ChapterProgressIn(bookmark, chapter,
                           AnalyzeEpubStructure(OpenZip(book, Val(file_paths.epub)), has_bs4))

\* the chapter progress kobo_to_moonreader_position derives from the book
\* progress when the chapter comes from the source file name
SourceChapterProgress(bookmark, book, chapter, has_bs4) ==
    ChapterProgressWith(bookmark, book, GetBookFiles(book), chapter, has_bs4)

\* scrolled_chars and screen_offset of _estimate_position_fallback
EstimatedOffsets(position) ==
    <<IF position \div 100 < 50 THEN position \div 100 ELSE 50, position % 100>>

\* the chapter _estimate_position_fallback makes of the book progress
EstimatedChapter(progress) ==
    IF NonZeroFloat(progress)
    THEN RTrunc(RMul(RDiv(Val(progress), RInt(100)), RInt(EstimatedChapters)))
    ELSE 0

\* scrolled_chars and screen_offset as _estimate_position_fallback reads them
\* from the location
LocationOffsets(location, book_format) ==
    IF book_format = "kepub" /\ Contains(location, <<"!">>)
    THEN IF ~IsNone(SearchKoboFragment(location))
         THEN EstimatedOffsets(ToInt(Val(SearchKoboFragment(location))[2]))
         ELSE <<0, 0>>
    ELSE IF Contains(location, <<"/">>) /\ IsDigits(Split(location, "/")[2])
    THEN EstimatedOffsets(ToInt(Split(location, "/")[2]))
    ELSE <<0, 0>>

\* the chapter progress _estimate_position_fallback makes of the book progress
EstimatedProgress(progress, chapter) ==
    LET chapter_start_percent == RMul(Rat(chapter, EstimatedChapters), RInt(100))
        chapter_end_percent == RMul(Rat(chapter + 1, EstimatedChapters), RInt(100))
    IN  IF NonZeroFloat(progress) /\ chapter >= 0
        THEN IF RLeq(chapter_start_percent, Val(progress))
             THEN Clamp100(RMul(RDiv(RSub(Val(progress), chapter_start_percent),
                                     RSub(chapter_end_percent, chapter_start_percent)),
                                RInt(100)))
             ELSE RInt(0)
        ELSE RInt(0)

\* the four fields of _estimate_position_fallback
EstimatedFields(chapter, offsets, chapter_progress) ==
    <<chapter, offsets[1], offsets[2], chapter_progress>>

\* _estimate_position_fallback: <<chapter, scrolled_chars, screen_offset,
\* chapter_progress>>
EstimatePositionFallback(bookmark, book) ==
    EstimatedFields(EstimatedChapter(bookmark.progress_percent),
                    LocationOffsets(IF Truthy(bookmark.location_value)
                                    THEN Val(bookmark.location_value) ELSE <<>>,
                                    IF ~IsNone(book) THEN GetBookFormat(book) ELSE "epub"),
                    EstimatedProgress(bookmark.progress_percent,
                                      EstimatedChapter(bookmark.progress_percent)))

\* f"{timestamp}*{chapter}@{scrolled_chars}#{screen_offset}:{chapter_progress:.1f}%"
WireString(timestamp, chapter, scrolled_chars, screen_offset, chapter_progress) ==
    timestamp \o <<"*">> \o FormatInt(chapter) \o <<"@">> \o FormatInt(scrolled_chars)
        \o <<"#">> \o FormatInt(screen_offset) \o <<":">> \o FormatFixed1(chapter_progress)
        \o <<"%">>

\* the chapter of a split file: the one after its NCX entry, else 1
ChapterOfSplit(toc_index) == IF ~IsNone(toc_index) THEN Val(toc_index) + 1 ELSE 1

\* the chapter kobo_to_moonreader_position reads from the source file name
SourceChapter(info, book) ==
    IF NonZero(info.source_chapter) THEN Val(info.source_chapter) - 1
    ELSE ChapterOfSplit(MapSplitToChapter(Val(info.source_split), book))

\* the fields when the chapter comes from the source file name
SourceFields(bookmark, book, info, chapter, has_bs4) ==
    [via |-> "source",
     fields |-> <<chapter, info.span_x * 10, info.span_y,
                  SourceChapterProgress(bookmark, book, chapter, has_bs4)>>]

\* the fields when it does not: those of the mapped position, else the estimate
MappedFields(bookmark, book, position_info) ==
    IF ~IsNone(position_info)
    THEN [via |-> "mapping",
          fields |-> <<Val(position_info).chapter, Val(position_info).paragraph,
                       Val(position_info).character_offset,
                       Val(position_info).chapter_progress>>]
    ELSE [via |-> "estimate", fields |-> EstimatePositionFallback(bookmark, book)]

\* the fields once parse_kobo_location_with_source has returned
FieldsOfLocation(bookmark, book, kobo_location_info, has_bs4) ==
    IF /\ ~IsNone(kobo_location_info)
       /\ \/ NonZero(Val(kobo_location_info).source_chapter)
          \/ NonZero(Val(kobo_location_info).source_split)
    THEN SourceFields(bookmark, book, Val(kobo_location_info),
                      SourceChapter(Val(kobo_location_info), book), has_bs4)
    ELSE MappedFields(bookmark, book,
                      MapKoboPositionToEpub(Val(bookmark.location_value), book,
                                            IF NonZeroFloat(bookmark.progress_percent)
                                            THEN bookmark.progress_percent ELSE None,
                                            has_bs4))

\* <<chapter, scrolled_chars, screen_offset, chapter_progress>> as
\* kobo_to_moonreader_position computes them for a book and a bookmark with a
\* location value, and the branch that computed them
PositionFields(bookmark, book, has_bs4) ==
    FieldsOfLocation(bookmark, book,
                     ParseKoboLocationWithSource(Val(bookmark.location_value),
                                                 bookmark.location_source),
                     has_bs4)

\* the outcome of kobo_to_moonreader_position for the fields of a position
Formatted(last_modified, position) ==
    [result |-> Return(Some(WireString(last_modified, position.fields[1], position.fields[2],
                                       position.fields[3], position.fields[4]))),
     via |-> Some(position.via), fields |-> Some(position.fields)]

\* kobo_to_moonreader_position for a bookmark.  Without a book, or with a
\* bookmark that has no location value, no branch assigns chapter,
\* scrolled_chars, screen_offset and chapter_progress before line 253 reads
\* them.
EncodeBookmark(last_modified, bookmark, book, has_bs4) ==
    IF ~IsNone(book) /\ Truthy(bookmark.location_value)
    THEN Formatted(last_modified, PositionFields(bookmark, book, has_bs4))
    ELSE [result |-> Raise("UnboundLocalError"), via |-> None, fields |-> None]

\* kobo_to_moonreader_position with the position it formats: the outcome, the
\* branch that computed the position and the four fields
KoboToMoonreaderCalls(kobo_reading_state, book, has_bs4) ==
    IF IsNone(kobo_reading_state) \/ IsNone(Val(kobo_reading_state).current_bookmark)
    THEN [result |-> Return(None), via |-> None, fields |-> None]
    ELSE EncodeBookmark(Val(kobo_reading_state).last_modified,
                        Val(Val(kobo_reading_state).current_bookmark), book, has_bs4)

\* kobo_to_moonreader_position: the string, None, or the exception
KoboToMoonreaderPosition(kobo_reading_state, book, has_bs4) ==
    KoboToMoonreaderCalls(kobo_reading_state, book, has_bs4).result

-----------------------------------------------------------------------------
(* Position Codec, Moon+ Reader to Kobo: moonreader_to_kobo_position *)

\* the characters [0-9.]+ takes at index i
RECURSIVE PercentCharsAt(_, _)
PercentCharsAt(s, i) ==
    IF i <= Len(s) /\ (IsDigit(s[i]) \/ s[i] = ".")
    THEN <<s[i]>> \o PercentCharsAt(s, i + 1) ELSE <<>>

\* re.match(r'(\d+)\*(\d+)@(\d+)#(\d+):([0-9.]+)%', content): the five groups,
\* or None.  The match is anchored at the start only.
MatchWire(content) ==
    LET g1 == DigitsAt(content, 1)
        p2 == Len(g1) + 2
        g2 == DigitsAt(content, p2)
        p3 == p2 + Len(g2) + 1
        g3 == DigitsAt(content, p3)
        p4 == p3 + Len(g3) + 1
        g4 == DigitsAt(content, p4)
        p5 == p4 + Len(g4) + 1
        g5 == PercentCharsAt(content, p5)
        at(i, c) == i <= Len(content) /\ content[i] = c
    IN  IF /\ Len(g1) > 0 /\ at(p2 - 1, "*")
           /\ Len(g2) > 0 /\ at(p3 - 1, "@")
           /\ Len(g3) > 0 /\ at(p4 - 1, "#")
           /\ Len(g4) > 0 /\ at(p5 - 1, ":")
           /\ Len(g5) > 0 /\ at(p5 + Len(g5), "%")
        THEN Some(<<g1, g2, g3, g4, g5>>)
        ELSE None

RECURSIVE Pow10(_)
Pow10(k) == IF k = 0 THEN 1 ELSE 10 * Pow10(k - 1)

\* float(s) for s made of digits and dots: None (ValueError) unless s holds at
\* least one digit and at most one dot
ParseFloat(s) ==
    LET dots == Count(s, ".")
        parts == Split(s, ".")
        whole == parts[1]
        frac == IF dots = 1 THEN parts[2] ELSE <<>>
    IN  IF dots > 1 \/ Len(whole) + Len(frac) = 0 THEN None
        ELSE Some(Rat(ToInt(whole \o frac), Pow10(Len(frac))))

\* str(int(s)) for a string of digits: without leading zeros
RECURSIVE Canonical(_)
Canonical(digits) ==
    IF Len(digits) > 1 /\ digits[1] = "0" THEN Canonical(Tail(digits)) ELSE digits

\* a <= b for canonical digit strings of equal length
RECURSIVE DigitsLeq(_, _)
DigitsLeq(a, b) ==
    IF Len(a) = 0 THEN TRUE
    ELSE IF DigitVal(a[1]) # DigitVal(b[1]) THEN DigitVal(a[1]) < DigitVal(b[1])
    ELSE DigitsLeq(Tail(a), Tail(b))

\* 9999-12-31T23:59:59.999Z, the last datetime
MaxTimestampMs == <<"2","5","3","4","0","2","3","0","0","7","9","9","9","9","9">>

\* datetime.fromtimestamp(int(timestamp_ms) / 1000, timezone.utc): None when it
\* raises for a year past 9999
FromTimestampMs(timestamp_ms) ==
    LET ms == Canonical(timestamp_ms) IN
    IF Len(ms) < Len(MaxTimestampMs) \/ (Len(ms) = Len(MaxTimestampMs) /\ DigitsLeq(ms, MaxTimestampMs))
    THEN Some(ms) ELSE None

\* the id of a span counted by count_total_kobo_spans: kobo.<digits>.<digits>
IsKoboSpanId(id) ==
    /\ ~IsNone(MatchKoboSpan(id))
    /\ id = sKoboDot \o Val(MatchKoboSpan(id))[1] \o <<".">> \o Val(MatchKoboSpan(id))[2]

RECURSIVE CountSpans(_, _, _, _, _)
CountSpans(zip, opf_path, spine_order, manifest, i) ==
    IF i > Len(spine_order) THEN 0
    ELSE LET path == IF DictHas(manifest, spine_order[i])
                     THEN ContentPath(zip, opf_path, DictGet(manifest, spine_order[i]))
                     ELSE None
             content == ZipRead(zip, Val(path))
         IN  (IF ~IsNone(path) /\ content.kind = "html"
              THEN Cardinality({e \in 1..Len(content.spans) :
                                   content.spans[e].tag = "span"
                                   /\ IsKoboSpanId(content.spans[e].id)})
              ELSE 0)
             + CountSpans(zip, opf_path, spine_order, manifest, i + 1)

\* count_total_kobo_spans once _find_opf_file has returned
CountSpansAt(zip, opf_path, opf) == CountSpans(zip, opf_path, opf[1], opf[2], 1)

\* count_total_kobo_spans
CountTotalKoboSpans(zip) ==
    IF ~zip.readable THEN 0
    ELSE IF IsNone(FindOpfFile(zip)) \/ ~ZipHas(zip, Val(FindOpfFile(zip))) THEN 0
    ELSE CountSpansAt(zip, Val(FindOpfFile(zip)),
                      ParseOpf(ZipRead(zip, Val(FindOpfFile(zip)))))

\* the chapter that holds the book progress among total_chapters chapters of
\* equal size: max(0, min(int(progress / (100 / total)), total - 1))
TargetChapter(book_progress_percent, total_chapters) ==
    LET target_chapter == RTrunc(RDiv(book_progress_percent, Rat(100, total_chapters)))
    IN  IF target_chapter > total_chapters - 1 THEN total_chapters - 1
        ELSE IF target_chapter < 0 THEN 0 ELSE target_chapter

\* map_progress_to_epub_chapter once the EPUB is analyzed
ChapterInStructure(book_progress_percent, epub_structure) ==
    IF IsNone(epub_structure) THEN None
    ELSE IF Val(epub_structure).total_chapters = 0 THEN None
    ELSE Some(TargetChapter(book_progress_percent, Val(epub_structure).total_chapters))

\* map_progress_to_epub_chapter once get_book_files has returned
ChapterInFiles(book_progress_percent, book, file_paths, has_bs4) ==
    IF IsNone(file_paths.epub) THEN None
    ELSE ChapterInStructure(book_progress_percent,
                            AnalyzeEpubStructure(OpenZip(book, Val(file_paths.epub)), has_bs4))

\* map_progress_to_epub_chapter
MapProgressToEpubChapter(book_progress_percent, book, has_bs4) ==
    ChapterInFiles(book_progress_percent, book, GetBookFiles(book), has_bs4)

\* sanitize_filename: re.sub(r'[<>:"/\\|?*]', '_', filename)
SanitizeFilename(filename) ==
    [i \in 1..Len(filename) |->
        IF filename[i] \in {"<", ">", ":", "\"", "/", "\\", "|", "?", "*"} THEN "_"
        ELSE filename[i]]

sKobo11 == <<"k","o","b","o",".","1",".","1">>
sKepubPrefix == <<".","k","e","p","u","b",".","e","p","u","b","!","O","E","B","P","S","/","T","e","x","t","/","C","h","a","p","t","e","r">>
sXhtmlHashKobo == <<".","x","h","t","m","l","#","k","o","b","o",".">>
sDotOne == <<".","1">>
sKoboSpanType == <<"K","o","b","o","S","p","a","n">>
sCalibreWeb == <<"c","a","l","i","b","r","e","-","w","e","b">>
sTextType == <<"t","e","x","t">>
sMoonreader == <<"m","o","o","n","r","e","a","d","e","r">>

\* the chapter count of an analyzed EPUB: 50 without a structure or chapters
ChaptersOf(epub_structure) ==
    IF IsNone(epub_structure) THEN EstimatedChapters
    ELSE IF Val(epub_structure).total_chapters # 0 THEN Val(epub_structure).total_chapters
    ELSE EstimatedChapters

\* the chapter count once get_book_files has returned
ChaptersInFiles(book, file_paths, has_bs4) ==
    IF IsNone(file_paths.epub) THEN EstimatedChapters
    ELSE ChaptersOf(AnalyzeEpubStructure(OpenZip(book, Val(file_paths.epub)), has_bs4))

\* the total chapter count moonreader_to_kobo_position divides by: that of the
\* EPUB when the analysis gives a non-zero one, else 50
DecodeChapters(book, has_bs4) ==
    IF IsNone(book) THEN EstimatedChapters
    ELSE ChaptersInFiles(book, GetBookFiles(book), has_bs4)

\* mutant of BookProgress: the book progress is not clamped
BookProgress_Unclamped(chapter_num, chapter_progress_val, estimated_chapters) ==
    RAdd(RMul(Rat(chapter_num, estimated_chapters), RInt(100)),
         RMul(RDiv(chapter_progress_val, RInt(100)),
              RMul(Rat(1, estimated_chapters), RInt(100))))

\* the book progress of a chapter and a chapter progress
BookProgress(chapter_num, chapter_progress_val, estimated_chapters) ==
    Clamp100(RAdd(RMul(Rat(chapter_num, estimated_chapters), RInt(100)),
                  RMul(RDiv(chapter_progress_val, RInt(100)),
                       RMul(Rat(1, estimated_chapters), RInt(100)))))

\* the span the book progress falls on among total_spans spans:
\* max(1, min(int(progress / 100 * total_spans), total_spans))
TargetSpan(book_progress, total_spans) ==
    LET raw_span == RTrunc(RMul(RDiv(book_progress, RInt(100)), RInt(total_spans)))
    IN  IF raw_span > total_spans THEN total_spans
        ELSE IF raw_span < 1 THEN 1 ELSE raw_span

\* the location of a span: with the chapter file when the progress maps to an
\* EPUB chapter, else the bare span id
SpanLocation(book, target_span_number, epub_chapter) ==
    IF ~IsNone(epub_chapter)
    THEN SanitizeFilename(Val(book).title) \o sKepubPrefix
             \o FormatTwoDigits(Val(epub_chapter) + 1) \o sXhtmlHashKobo
             \o FormatNat(target_span_number) \o sDotOne
    ELSE sKoboDot \o FormatNat(target_span_number) \o sDotOne

\* the KEPUB location once count_total_kobo_spans has returned
LocationAmongSpans(book, book_progress, total_spans, has_bs4) ==
    IF total_spans <= 0 THEN sKobo11
    ELSE SpanLocation(book, TargetSpan(book_progress, total_spans),
                      MapProgressToEpubChapter(book_progress, book, has_bs4))

\* the KEPUB location once get_book_files has returned
KepubLocationInFiles(book, file_paths, book_progress, has_bs4) ==
    IF IsNone(file_paths.kepub) THEN sKobo11
    ELSE LocationAmongSpans(book, book_progress,
                            CountTotalKoboSpans(OpenZip(book, Val(file_paths.kepub))),
                            has_bs4)

\* the location value generated for a KEPUB book
KepubLocationValue(book, book_progress, has_bs4) ==
    KepubLocationInFiles(book, GetBookFiles(book), book_progress, has_bs4)

\* the Kobo chapter of an EPUB location: the one the progress maps to, else
\* the Moon+ Reader chapter, plus one
KoboChapter(epub_chapter, chapter) ==
    IF ~IsNone(epub_chapter) THEN Val(epub_chapter) + 1 ELSE ToInt(chapter) + 1

\* the location value generated for an EPUB book
EpubLocationValue(book, book_progress, chapter, scrolled_chars, screen_offset, has_bs4) ==
    FormatNat(KoboChapter(MapProgressToEpubChapter(book_progress, book, has_bs4), chapter))
        \o <<"/">> \o FormatNat(ToInt(scrolled_chars) * 100 + ToInt(screen_offset))

\* the record moonreader_to_kobo_position returns
KoboPosition(timestamp, parts, book_progress, book, is_kepub, has_bs4) ==
    [timestamp |-> timestamp,
     progress_percent |-> book_progress,
     location_value |->
         IF is_kepub THEN KepubLocationValue(book, book_progress, has_bs4)
         ELSE EpubLocationValue(book, book_progress, parts[2], parts[3], parts[4], has_bs4),
     location_type |-> IF is_kepub THEN sKoboSpanType ELSE sTextType,
     location_source |-> IF is_kepub THEN sCalibreWeb ELSE sMoonreader]

\* moonreader_to_kobo_position once the numbers are parsed: None when float()
\* or datetime.fromtimestamp raises
DecodeNumbers(parts, chapter_progress_val, timestamp, book, has_bs4) ==
    IF IsNone(chapter_progress_val) THEN None
    ELSE IF IsNone(timestamp) THEN None
    ELSE Some(KoboPosition(Val(timestamp), parts,
                           BookProgress(ToInt(parts[2]), Val(chapter_progress_val),
                                        DecodeChapters(book, has_bs4)),
                           book, ~IsNone(book) /\ GetBookFormat(book) = "kepub", has_bs4))

\* moonreader_to_kobo_position once the pattern is matched
DecodeMatch(parts, book, has_bs4) ==
    IF IsNone(parts) THEN None
    ELSE DecodeNumbers(Val(parts), ParseFloat(Val(parts)[5]), FromTimestampMs(Val(parts)[1]),
                       book, has_bs4)

\* moonreader_to_kobo_position: None, or the record it returns
MoonreaderToKoboPosition(moonreader_content, book, has_bs4) ==
    IF ~Truthy(moonreader_content) \/ Len(Strip(Val(moonreader_content))) = 0 THEN None
    ELSE DecodeMatch(MatchWire(Strip(Val(moonreader_content))), book, has_bs4)

-----------------------------------------------------------------------------
(* Inputs of the position codec: books, reading states, position files *)

MaxWrites == 2   \* writes of the reading state or the position file in one behaviour

sBookName == <<"b">>
sBookTitle == <<"T",":","1">>
sFmtEpub == <<"E","P","U","B">>
sFmtKepub == <<"K","E","P","U","B">>

tLead == <<"i","n","t","r","o"," ">>
tTail == <<" ","e","n","d">>
tFuzzyKepub == <<"a","l","p","h","a"," ","b","e","t","a"," ","g","a","m","m","a"," ","d","e","l","t","a"," ","e","p","s","i","l","o","n"," ","z","e","t","a">>
tFuzzyEpub == <<"o","n","e"," ","a","l","p","h","a"," ","b","e","t","a"," ","g","a","m","m","a"," ","d","e","l","t","a"," ","o","m","e","g","a"," ","z","e","t","a">>

\* the text of the k-th content file of an EPUB
EpubText(k) == tLead \o <<"t">> \o FormatNat(k) \o tTail

TextDoc(text) == [kind |-> "html", nav |-> None, text |-> text, spans |-> <<>>]

\* a KEPUB content file whose only span carries id and text
KepubDoc(id, text) ==
    [kind |-> "html", nav |-> None, text |-> text,
     spans |-> <<[id |-> id, tag |-> "span", text |-> text, block |-> text]>>]

\* an archive of the content documents docs, in spine order, with the extra
\* manifest items and entries of a table of contents
MkBookZip(docs, toc_items, toc_entries) ==
    [readable |-> TRUE,
     container |-> None,
     entries |-> <<[name |-> sContentOpf,
                    doc |-> [kind |-> "opf", wellformed |-> TRUE,
                             items |-> ContentItems(Len(docs)) \o toc_items,
                             itemrefs |-> InOrder(Len(docs))]]>>
                 \o [k \in 1..Len(docs) |-> [name |-> ItemHref(k), doc |-> docs[k]]]
                 \o toc_entries]

EpubOf(n) == MkBookZip([k \in 1..n |-> TextDoc(EpubText(k))], <<>>, <<>>)

\* an EPUB of three files whose NCX names two split files
sSplitHref1 == <<"x","_","s","p","l","i","t","_","1",".","h","t","m","l">>
sSplitHref2 == <<"x","_","s","p","l","i","t","_","2",".","h","t","m","l","#","a">>
SplitNcx == [kind |-> "ncx", wellformed |-> TRUE,
             navPoints |-> << [text |-> Some(Some(tPartOne)), src |-> Some(sSplitHref1)],
                              [text |-> Some(Some(tIntro)), src |-> Some(sSplitHref2)] >>]
SplitEpub == MkBookZip([k \in 1..3 |-> TextDoc(EpubText(k))],
                       <<Item(sNcxId, sNcxHref)>>,
                       <<[name |-> sNcxHref, doc |-> SplitNcx]>>)

\* an EPUB of three files whose NCX titles are a part header and two chapters
PartNcx == [kind |-> "ncx", wellformed |-> TRUE,
            navPoints |-> << [text |-> Some(Some(tPartOne)), src |-> Some(ItemHref(1))],
                             [text |-> Some(Some(UnitsRoman[1])), src |-> Some(ItemHref(2))],
                             [text |-> Some(Some(UnitsRoman[2])), src |-> Some(ItemHref(3))] >>]
PartEpub == MkBookZip([k \in 1..3 |-> TextDoc(EpubText(k))],
                      <<Item(sNcxId, sNcxHref)>>,
                      <<[name |-> sNcxHref, doc |-> PartNcx]>>)

\* an EPUB of three files whose NCX titles are an introduction and two part
\* headers, the second with a number _extract_part_number does not know
HeaderNcx == [kind |-> "ncx", wellformed |-> TRUE,
              navPoints |-> << [text |-> Some(Some(tIntro)), src |-> Some(ItemHref(1))],
                               [text |-> Some(Some(tPartTwo)), src |-> Some(ItemHref(2))],
                               [text |-> Some(Some(tPartFour)), src |-> Some(ItemHref(3))] >>]
HeaderEpub == MkBookZip([k \in 1..3 |-> TextDoc(EpubText(k))],
                        <<Item(sNcxId, sNcxHref)>>,
                        <<[name |-> sNcxHref, doc |-> HeaderNcx]>>)

\* an EPUB of three files whose NCX leaves out the first file: its entries
\* "I" and "II" are the second and the third file of the spine
OffsetNcx == [kind |-> "ncx", wellformed |-> TRUE,
              navPoints |-> << [text |-> Some(Some(UnitsRoman[1])), src |-> Some(ItemHref(2))],
                               [text |-> Some(Some(UnitsRoman[2])), src |-> Some(ItemHref(3))] >>]
OffsetEpub == MkBookZip([k \in 1..3 |-> TextDoc(EpubText(k))],
                        <<Item(sNcxId, sNcxHref)>>,
                        <<[name |-> sNcxHref, doc |-> OffsetNcx]>>)

\* the KEPUB of a three-file book: span kobo.5.12 in the second and third
\* file, with the text the EPUB holds there
KepubOf == MkBookZip(<<TextDoc(EpubText(1)),
                       KepubDoc(sKoboSpan, <<"t", "2">>),
                       KepubDoc(sKoboSpan, <<"t", "3">>)>>, <<>>, <<>>)

FuzzyKepub == MkBookZip(<<KepubDoc(sKoboSpan, tFuzzyKepub)>>, <<>>, <<>>)
FuzzyEpub == MkBookZip(<<TextDoc(EpubText(1)), TextDoc(tFuzzyEpub)>>, <<>>, <<>>)

EpubRow == [format |-> sFmtEpub, name |-> sBookName]
KepubRow == [format |-> sFmtKepub, name |-> sBookName]
EpubFile(zip) == [name |-> sBookName \o sDotEpub, zip |-> zip]
KepubFile(zip) == [name |-> sBookName \o sDotKepubEpub, zip |-> zip]

Book(data, listing) == Some([title |-> sBookTitle, data |-> data, dir |-> Some(listing)])

EpubBook == Book(<<EpubRow>>, <<EpubFile(EpubOf(3))>>)
BothBook == Book(<<EpubRow, KepubRow>>, <<EpubFile(EpubOf(3)), KepubFile(KepubOf)>>)
OffsetBook == Book(<<EpubRow, KepubRow>>, <<EpubFile(OffsetEpub), KepubFile(KepubOf)>>)
FuzzyBook == Book(<<EpubRow, KepubRow>>, <<EpubFile(FuzzyEpub), KepubFile(FuzzyKepub)>>)

\* a span of twenty words, word01 to word20, and two EPUBs for it: one that
\* holds only its middle half, word06 to word15, and one that holds none of it
tWord == <<"w","o","r","d">>
LongWords == [k \in 1..20 |-> tWord \o FormatTwoDigits(k)]
LongKepub == MkBookZip(<<KepubDoc(sKoboSpan, Join(LongWords))>>, <<>>, <<>>)
MiddleEpub ==
    MkBookZip(<<TextDoc(EpubText(1)),
                TextDoc(tLead \o Join(SubSeq(LongWords, 6, 15)) \o tTail)>>, <<>>, <<>>)
RetryBook == Book(<<EpubRow, KepubRow>>, <<EpubFile(MiddleEpub), KepubFile(LongKepub)>>)
RetryFailBook == Book(<<EpubRow, KepubRow>>, <<EpubFile(EpubOf(3)), KepubFile(LongKepub)>>)

\* a span of five words and an EPUB whose first file holds four of them in a
\* row and whose second file holds the five
FiveKepub == MkBookZip(<<KepubDoc(sKoboSpan, Join(SubSeq(LongWords, 1, 5)))>>, <<>>, <<>>)
EarlyFuzzyEpub ==
    MkBookZip(<<TextDoc(tLead \o Join(SubSeq(LongWords, 1, 4)) \o <<" ", "x">> \o tTail),
                TextDoc(tLead \o Join(SubSeq(LongWords, 1, 5)) \o tTail)>>, <<>>, <<>>)
EarlyFuzzyBook ==
    Book(<<EpubRow, KepubRow>>, <<EpubFile(EarlyFuzzyEpub), KepubFile(FiveKepub)>>)

\* a span of eight words and an EPUB that holds only its middle half
ShortKepub == MkBookZip(<<KepubDoc(sKoboSpan, Join(SubSeq(LongWords, 1, 8)))>>, <<>>, <<>>)
ShortEpub ==
    MkBookZip(<<TextDoc(tLead \o Join(SubSeq(LongWords, 3, 6)) \o tTail)>>, <<>>, <<>>)
ShortBook == Book(<<EpubRow, KepubRow>>, <<EpubFile(ShortEpub), KepubFile(ShortKepub)>>)

Books ==
    { None,
      \* the library directory is not found
      Some([title |-> sBookTitle, data |-> <<EpubRow>>, dir |-> None]),
      EpubBook,
      Book(<<EpubRow>>, <<EpubFile(EpubOf(0))>>),
      Book(<<EpubRow>>, <<EpubFile(SplitEpub)>>),
      Book(<<EpubRow>>, <<EpubFile(Unreadable)>>),
      BothBook,
      Book(<<EpubRow, KepubRow>>, <<EpubFile(PartEpub), KepubFile(KepubOf)>>),
      Book(<<EpubRow, KepubRow>>, <<EpubFile(HeaderEpub), KepubFile(KepubOf)>>),
      FuzzyBook, RetryBook, RetryFailBook, ShortBook, OffsetBook, EarlyFuzzyBook,
      Book(<<EpubRow, KepubRow>>, <<EpubFile(EpubOf(0)), KepubFile(KepubOf)>>),
      Book(<<KepubRow>>, <<KepubFile(KepubOf)>>),
      \* no Data row names a file: the directory scan takes the KEPUB as EPUB
      Book(<<>>, <<KepubFile(KepubOf)>>) }

\* a book, and whether BeautifulSoup is installed
Installations ==
    (Books \X {TRUE}) \cup ({EpubBook, BothBook, FuzzyBook} \X {FALSE})

\* the books every input is tried on; the other books get the common inputs
WideBooks == {None, BothBook}

sLocSlash == <<"3","/","7","7","0","5">>
sLocSlashZero == <<"0","/","5">>
sLocSlashFar == <<"2","/","2","0","0","0","0">>
sLocSpanZero == <<"k","o","b","o",".","0",".","5">>
sLocSpanFar == <<"k","o","b","o",".","9",".","1","5","0">>
sLocContentId == <<"T",".","k","e","p","u","b",".","e","p","u","b","!","O","E","B","P","S","/","T","e","x","t","/","C","h","a","p","t","e","r","0","3",".","x","h","t","m","l","#","k","o","b","o",".","3",".","1","2","3","4">>
sLocGarbage == <<"g","a","r","b","a","g","e">>
sSrcChapter == <<"C","h","a","p","t","e","r","0","9",".","x","h","t","m","l">>
sSrcChapterZero == <<"C","h","a","p","t","e","r","0",".","x","h","t","m","l">>
sSrcSplit == <<"x","_","s","p","l","i","t","_","2",".","h","t","m","l">>

LocationValues ==
    {None, Some(<<>>), Some(sLocSlash), Some(sLocSlashZero), Some(sLocSlashFar),
     Some(sKoboSpan), Some(sLocSpanZero), Some(sLocSpanFar), Some(sLocContentId),
     Some(sLocGarbage)}

\* the source file names Kobo reports with a span location
LocationSources ==
    {None, Some(sSrcChapter), Some(sSrcChapterZero), Some(sSrcSplit), Some(sMoonreader)}

Bookmark(l, s, p) ==
    [location_value |-> l, location_source |-> s, location_type |-> None,
     progress_percent |-> p]

CommonBookmarks ==
    {Bookmark(l, None, Some(RInt(40))) : l \in LocationValues}
    \cup {Bookmark(Some(sLocSlash), None, p) : p \in {None, Some(RInt(-5))}}
    \cup {Bookmark(Some(sKoboSpan), s, Some(RInt(60))) : s \in LocationSources}

Bookmarks ==
    CommonBookmarks
    \cup {Bookmark(Some(sLocSlash), None, p) : p \in ReportedProgress}
    \cup {Bookmark(Some(sKoboSpan), s, p) :
            s \in LocationSources, p \in {None, Some(RInt(250))}}
    \cup {Bookmark(Some(sLocSpanZero), s, None) : s \in LocationSources}

sStamp == <<"1","6","9","7","7","4","3","0","5","2","4","9","8">>

StateOf(bookmark) == Some([last_modified |-> sStamp, current_bookmark |-> bookmark])

CommonKoboStates == {None, StateOf(None)} \cup {StateOf(Some(b)) : b \in CommonBookmarks}

KoboStates == CommonKoboStates \cup {StateOf(Some(b)) : b \in Bookmarks}

\* position files: strings of the wire grammar
GoodWires ==
    { <<"1","6","9","7","7","4","3","0","5","2","4","9","8","*","2","@","0","#","0",":","3","0",".","0","%">>, <<"1","0","0","0","*","0","@","0","#","0",":","0",".","0","%">>, <<"1","0","0","0","*","4","9","@","5","0","#","9","9",":","1","0","0",".","0","%">>,
      <<"1","0","0","0","*","2","@","3","#","4",":","3","0","%">>, <<"1","0","0","0","*","2","@","5","1","#","0",":","3","0",".","0","%">>, <<"1","0","0","0","*","6","0","@","0","#","0",":","0",".","0","%">>,
      <<"1","0","0","0","*","0","0","7","@","0","#","1","5","0",":","5",".","2","6","%">>, <<"9","9","9","9","9","9","9","9","9","9","9","9","9","9","9","*","1","@","0","#","0",":","0",".","0","%">>, <<"1","0","0","0","*","1","@","0","#","0",":","2","5","0",".","0","%">> }

\* position files that deviate from it
BadWires ==
    { <<"a","b","c","*","1","@","0","#","0",":","x","%">>, <<"1","*","2","@","3","#","4",":","5","0",".","0","%","x","y","z">>, <<"1","*","2","@","3","#","4",":","5",".","%">>, <<"1","*","2","@","3","#","4",":",".","5","%">>,
      <<"1","*","2","@","3","#","4",":",".","%">>, <<"1","*","2","@","3","#","4",":","1",".","2",".","3","%">>, <<" ","1","*","2","@","3","#","4",":","5","%"," ">>, <<"x","1","*","2","@","3","#","4",":","5","%">>,
      <<"1","*","2","@","3","#","4",":","5">>, <<"1","*","-","2","@","3","#","4",":","5",".","0","%">>, <<"1","*","2","@","3","#","4",":","5","%","%">>, <<" "," "," ">>, <<>> }

CommonPositionFiles == {Some(w) : w \in GoodWires}

PositionFiles == {Some(w) : w \in GoodWires \cup BadWires}

-----------------------------------------------------------------------------
(* Specification of the position codec.                                    *)
(*                                                                         *)
(* A behaviour starts from a book with either a reading state written by   *)
(* the Kobo device or a position file written by Moon+ Reader, and makes   *)
(* up to MaxWrites writes of the reading state or the position file; the   *)
(* conversions are functions of their arguments, so each is called once    *)
(* on each argument.  calls counts the writes.  trip follows the round     *)
(* trip of an initial position file w: decode (stage 1), store the record  *)
(* in the reading state (2), encode (3), write the position file (4),      *)
(* decode (5); it is None when the calls made are not that sequence.       *)

InitCodec ==
    /\ \E installation \in Installations :
           /\ sync_book = installation[1]
           /\ HAS_BEAUTIFULSOUP = installation[2]
    /\ \/ /\ kobo_state \in IF sync_book \in WideBooks THEN KoboStates ELSE CommonKoboStates
          /\ po_content = None
          /\ trip = None
       \/ /\ kobo_state = None
          /\ po_content \in IF sync_book \in WideBooks THEN PositionFiles
                             ELSE CommonPositionFiles
          /\ trip = Some([w |-> Val(po_content), stage |-> 0, first |-> None])
    /\ encoded = None /\ decoded = None /\ mapped = None
    /\ calls = 0
    /\ pc = "sync"
    /\ ClassifyIdle /\ ArchiveIdle /\ SpanIdle /\ SyncIdle /\ DriveIdle /\ SearchIdle

\* trip after a call that is the step from stage `from` of the round trip
Advance(from, first) ==
    IF ~IsNone(trip) /\ Val(trip).stage = from
    THEN Some([w |-> Val(trip).w, stage |-> from + 1, first |-> first])
    ELSE None

\* trip after moonreader_to_kobo_position returned result
Decoded(result) ==
    IF ~IsNone(trip) /\ Val(trip).stage = 0 THEN Advance(0, result)
    ELSE IF ~IsNone(trip) /\ Val(trip).stage = 4 THEN Advance(4, Val(trip).first)
    ELSE None

\* moonreader_to_kobo_position on the position file
Decode ==
    /\ pc = "sync"
    /\ IF IsNone(decoded) THEN TRUE ELSE Val(decoded).content # po_content
    /\ \E result \in {MoonreaderToKoboPosition(po_content, sync_book, HAS_BEAUTIFULSOUP)} :
           /\ decoded' = Some([content |-> po_content, result |-> Return(result)])
           /\ trip' = Decoded(result)
    /\ UNCHANGED <<calls, sync_book, kobo_state, po_content, encoded, mapped, HAS_BEAUTIFULSOUP, pc,
                   classifyVars, archiveVars, spanVars, syncVars, driveVars,
                   searchVars>>

\* update_kobo_reading_state_from_moonreader with the decoded record
UpdateState ==
    /\ pc = "sync" /\ calls < MaxWrites
    /\ ~IsNone(decoded) /\ Val(decoded).content = po_content
    /\ ~IsNone(Val(decoded).result.value)
    /\ LET moonreader_data == Val(Val(decoded).result.value) IN
       kobo_state' = Some([last_modified |-> moonreader_data.timestamp,
                           current_bookmark |->
                               Some([progress_percent |-> Some(moonreader_data.progress_percent),
                                     location_value |-> Some(moonreader_data.location_value),
                                     location_type |-> Some(moonreader_data.location_type),
                                     location_source |-> Some(moonreader_data.location_source)])])
    /\ trip' = IF ~IsNone(trip) THEN Advance(1, Val(trip).first) ELSE None
    /\ calls' = calls + 1
    /\ UNCHANGED <<sync_book, po_content, encoded, decoded, mapped, HAS_BEAUTIFULSOUP, pc,
                   classifyVars, archiveVars, spanVars, syncVars, driveVars,
                   searchVars>>

\* kobo_to_moonreader_position on the reading state
Encode ==
    /\ pc = "sync"
    /\ IF IsNone(encoded) THEN TRUE ELSE Val(encoded).state # kobo_state
    /\ \E call \in {KoboToMoonreaderCalls(kobo_state, sync_book, HAS_BEAUTIFULSOUP)} :
           encoded' = Some([state |-> kobo_state, result |-> call.result, via |-> call.via,
                            fields |-> call.fields])
    /\ trip' = IF ~IsNone(trip) THEN Advance(2, Val(trip).first) ELSE None
    /\ UNCHANGED <<calls, sync_book, kobo_state, po_content, decoded, mapped,
                   HAS_BEAUTIFULSOUP, pc, classifyVars, archiveVars, spanVars, syncVars, driveVars,
                   searchVars>>

\* create_position_file: the encoded string becomes the position file
Upload ==
    /\ pc = "sync" /\ calls < MaxWrites
    /\ ~IsNone(encoded) /\ Val(encoded).result.kind = "return"
    /\ ~IsNone(Val(encoded).result.value)
    /\ Val(encoded).state = kobo_state
    /\ po_content # Val(encoded).result.value
    /\ po_content' = Val(encoded).result.value
    /\ trip' = IF ~IsNone(trip) THEN Advance(3, Val(trip).first) ELSE None
    /\ calls' = calls + 1
    /\ UNCHANGED <<sync_book, kobo_state, encoded, decoded, mapped, HAS_BEAUTIFULSOUP, pc,
                   classifyVars, archiveVars, spanVars, syncVars, driveVars,
                   searchVars>>

\* map_kobo_position_to_epub on the location of the bookmark
MapPosition ==
    /\ pc = "sync"
    /\ ~IsNone(kobo_state) /\ ~IsNone(Val(kobo_state).current_bookmark)
    /\ \E bookmark \in {Val(Val(kobo_state).current_bookmark)} :
           /\ ~IsNone(bookmark.location_value)
           /\ IF IsNone(mapped) THEN TRUE ELSE Val(mapped).bookmark # bookmark
           /\ \E call \in {MapKoboCalls(Val(bookmark.location_value), sync_book,
                                        bookmark.progress_percent, HAS_BEAUTIFULSOUP)} :
              \E made \in {MapKoboSearches(Val(bookmark.location_value), sync_book,
                                            bookmark.progress_percent, HAS_BEAUTIFULSOUP)} :
                  mapped' = Some([bookmark |-> bookmark, result |-> Return(call.result),
                                  search |-> call.search, structural |-> call.structural,
                                  sample |-> made.sample, searches |-> made.searches])
    /\ UNCHANGED <<calls, sync_book, kobo_state, po_content, encoded, decoded, trip,
                   HAS_BEAUTIFULSOUP, pc, classifyVars, archiveVars, spanVars, syncVars, driveVars,
                   searchVars>>

NextCodec == Decode \/ UpdateState \/ Encode \/ Upload \/ MapPosition

SpecCodec == InitCodec /\ [][NextCodec]_vars

-----------------------------------------------------------------------------
(* Properties of the position codec *)

\* the fixed grammar of position files, ^\d+\*\d+@\d+#\d+:\d+(\.\d+)?%$,
\* matched in full
WireGrammar(s) ==
    LET g1 == DigitsAt(s, 1)
        p2 == Len(g1) + 2
        g2 == DigitsAt(s, p2)
        p3 == p2 + Len(g2) + 1
        g3 == DigitsAt(s, p3)
        p4 == p3 + Len(g3) + 1
        g4 == DigitsAt(s, p4)
        p5 == p4 + Len(g4) + 1
        g5 == DigitsAt(s, p5)
        p6 == p5 + Len(g5)
        at(i, c) == i <= Len(s) /\ s[i] = c
        fraction == IF at(p6, ".") THEN DigitsAt(s, p6 + 1) ELSE <<>>
        last == IF at(p6, ".") THEN p6 + 1 + Len(fraction) ELSE p6
    IN  /\ Len(g1) > 0 /\ at(p2 - 1, "*")
        /\ Len(g2) > 0 /\ at(p3 - 1, "@")
        /\ Len(g3) > 0 /\ at(p4 - 1, "#")
        /\ Len(g4) > 0 /\ at(p5 - 1, ":")
        /\ Len(g5) > 0
        /\ at(p6, ".") => Len(fraction) > 0
        /\ at(last, "%") /\ Len(s) = last

\* the position file of the last decode call, trimmed
DecodedContent == Strip(Val(Val(decoded).content))

\* the last decode call was made on a non-empty position file
DecodedFile == ~IsNone(decoded) /\ Truthy(Val(decoded).content)

\* the last decode call returned a record
Accepted == ~IsNone(decoded) /\ ~IsNone(Val(decoded).result.value)

\* C1 (as stated): moonreader_to_kobo_position returns None for every input
\* that, trimmed, does not match the wire grammar in full
C1_RejectsUngrammatical ==
    (DecodedFile /\ ~WireGrammar(DecodedContent)) => ~Accepted

\* the last encode call returned a string
Encoded ==
    /\ ~IsNone(encoded) /\ Val(encoded).result.kind = "return"
    /\ ~IsNone(Val(encoded).result.value)

EncodedWire == Val(Val(encoded).result.value)

\* C2 (as stated): no call of kobo_to_moonreader_position,
\* moonreader_to_kobo_position or map_kobo_position_to_epub ends with an
\* exception
C2_NoExceptionEscapes ==
    /\ ~IsNone(encoded) => Val(encoded).result.kind = "return"
    /\ ~IsNone(decoded) => Val(decoded).result.kind = "return"
    /\ ~IsNone(mapped) => Val(mapped).result.kind = "return"

\* the string ends with a percent field of exactly one decimal place
OneDecimal(s) ==
    /\ Len(s) >= 4 /\ s[Len(s)] = "%" /\ IsDigit(s[Len(s) - 1])
    /\ s[Len(s) - 2] = "." /\ IsDigit(s[Len(s) - 3])

\* C3 (as stated): every string kobo_to_moonreader_position returns has five
\* fields with non-negative integers for the timestamp, the chapter, the
\* scrolled characters and the screen offset and a progress of exactly one
\* decimal place, so the wire grammar accepts it
C3_WellFormedWire ==
    Encoded => WireGrammar(EncodedWire) /\ OneDecimal(EncodedWire)

InRange(x) == RLeq(RInt(0), x) /\ RLeq(x, RInt(100))

\* C4: chapter_progress is within [0, 100] in every PositionInfo returned by
\* search_text_in_epub, _fallback_structural_mapping and
\* map_kobo_position_to_epub, and in every chapter progress
\* kobo_to_moonreader_position formats into the string, whichever branch
\* (source file, mapping, _estimate_position_fallback) computed it
C4_ChapterProgressInRange ==
    /\ Encoded => InRange(Val(Val(encoded).fields)[4])
    /\ ~IsNone(mapped) =>
          \A r \in {Val(mapped).search, Val(mapped).structural, Val(mapped).result.value} :
              ~IsNone(r) => InRange(Val(r).chapter_progress)

\* a structural mapping of an offset beyond 10000, which the clamp holds at
\* 100, was returned by map_kobo_position_to_epub and formatted into a string
C4_Witness ==
    /\ ~IsNone(mapped) /\ ~IsNone(Val(mapped).structural)
    /\ Val(mapped).bookmark.location_value = Some(sLocSlashFar)
    /\ Val(Val(mapped).structural).chapter_progress = RInt(100)
    /\ Encoded /\ Val(encoded).via = Some("mapping")
    /\ Val(Val(encoded).fields)[4] = RInt(100)

\* the two records are equal, the progress compared after rounding to one
\* decimal place
SameRecord(a, b) ==
    /\ a.timestamp = b.timestamp
    /\ RoundTenths(a.progress_percent) = RoundTenths(b.progress_percent)
    /\ a.location_value = b.location_value
    /\ a.location_type = b.location_type
    /\ a.location_source = b.location_source

\* the round trip of a position file of the grammar is complete
TripDone == ~IsNone(trip) /\ Val(trip).stage = 5 /\ WireGrammar(Strip(Val(trip).w))

\* C5 (as stated): for a position file w of the grammar, decoding w, encoding
\* a reading state that holds the decoded record and decoding the result
\* gives a record equal to the first, the progress compared after rounding
\* to one decimal place
C5_RoundTrip ==
    TripDone => /\ Accepted
                /\ SameRecord(Val(Val(decoded).result.value), Val(Val(trip).first))

\* the chapter count of the analyzed EPUB of the book when the analysis gives
\* one that is not zero, else the default of 50
AnalyzedChapterCount(epub_structure) ==
    IF ~IsNone(epub_structure) /\ Val(epub_structure).total_chapters > 0
    THEN Val(epub_structure).total_chapters
    ELSE EstimatedChapters

\* the structure analyze_epub_structure gives for the EPUB of the book
\* synchronised, None without a book or an EPUB file
AnalyzedEpub ==
    IF IsNone(sync_book) THEN None
    ELSE IF IsNone(GetBookFiles(sync_book).epub) THEN None
    ELSE AnalyzeEpubStructure(OpenZip(sync_book, Val(GetBookFiles(sync_book).epub)),
                              HAS_BEAUTIFULSOUP)

\* chapterStart + (p / 100) * (100 / chapterCount), chapterStart being
\* c / chapterCount * 100
WholeBookProgress(c, p, chapterCount) ==
    RAdd(RMul(Rat(c, chapterCount), RInt(100)),
         RMul(RDiv(p, RInt(100)), Rat(100, chapterCount)))

\* C12: the progress_percent of every record moonreader_to_kobo_position
\* returns is the whole-book progress of the decoded chapter c and chapter
\* progress p, chapterStart + (p/100)*(100/chapterCount), clamped to
\* [0, 100], chapterCount being the chapter count of the analyzed EPUB when
\* there is one and 50 otherwise; it is always within [0, 100].
C12_WholeBookProgress ==
    Accepted =>
        \E parts \in {Val(MatchWire(DecodedContent))} :
        \E whole \in {WholeBookProgress(ToInt(parts[2]), Val(ParseFloat(parts[5])),
                                        AnalyzedChapterCount(AnalyzedEpub))} :
            /\ Val(Val(decoded).result.value).progress_percent =
                  (IF RLess(whole, RInt(0)) THEN RInt(0)
                   ELSE IF RLess(RInt(100), whole) THEN RInt(100) ELSE whole)
            /\ InRange(Val(Val(decoded).result.value).progress_percent)

\* the scenario: "1697743052498*2@0#0:30.0%" decoded for a book with an EPUB
\* of three chapters gives the timestamp 1697743052498 ms and the progress
\* of chapter 2 at 30%, 2/3*100 + 0.3*(100/3) = 230/3
C12_Witness ==
    /\ Accepted
    /\ sync_book = EpubBook
    /\ DecodedContent = sStamp \o <<"*","2","@","0","#","0",":","3","0",".","0","%">>
    /\ Val(Val(decoded).result.value).timestamp = sStamp
    /\ Val(Val(decoded).result.value).progress_percent = Rat(230, 3)

\* the PositionInfo values the last call of map_kobo_position_to_epub made:
\* that of the text search, that of the structural mapping and the one
\* returned, which is the search result enhanced with part and chapter
MappedPositions ==
    IF IsNone(mapped) THEN {}
    ELSE {Val(r) : r \in {q \in {Val(mapped).search, Val(mapped).structural,
                                  Val(mapped).result.value} : ~IsNone(q)}}

\* C13: in every PositionInfo the analyzer produces, is_part_header being
\* true implies chapter = 0, chapter_in_part = 0 and a part that is set.
C13_PartHeaderPosition ==
    \A position \in MappedPositions :
        position.is_part_header =>
            /\ position.chapter = 0
            /\ position.chapter_in_part = Some(0)
            /\ ~IsNone(position.part)

\* a match in the second chapter file, whose NCX entry is the header
\* "Part Two", was enhanced to the header of part 2
C13_Witness ==
    /\ ~IsNone(mapped) /\ ~IsNone(Val(mapped).search)
    /\ Val(Val(mapped).search).chapter = 1
    /\ ~IsNone(Val(mapped).result.value)
    /\ Val(Val(mapped).result.value).is_part_header
    /\ Val(Val(mapped).result.value).part = Some(2)
    /\ Val(Val(mapped).result.value).chapter = 0

\* the surrounding context is long enough for the second search: more than
\* 50 characters and more than 10 words
LongContext(sample) ==
    Len(sample.surrounding_context) > 50 /\ Len(SplitWords(sample.surrounding_context)) > 10

\* the words from quartile 1/4 to quartile 3/4 of a word list
MiddleHalf(words) ==
    [i \in 1..(((3 * Len(words)) \div 4) - (Len(words) \div 4)) |->
        words[(Len(words) \div 4) + i]]

\* the last call searched for the text of the sample first, fell back to the
\* structural mapping only when no search it made found a position, and
\* returned the position a search found, enhanced or as found
SearchBeforeStructure(m) ==
    /\ IsNone(m.sample) => m.searches = <<>>
    /\ ~IsNone(m.sample) =>
           /\ Len(m.searches) >= 1
           /\ m.searches[1].target = Val(m.sample).text
    /\ ~IsNone(m.structural) => \A i \in 1..Len(m.searches) : IsNone(m.searches[i].found)
    /\ \A i \in 1..Len(m.searches) :
           ~IsNone(m.searches[i].found) =>
               /\ i = Len(m.searches)
               /\ IsNone(m.structural)
               /\ m.search = m.searches[i].found
               /\ ~IsNone(m.result.value)
               /\ Val(m.result.value).chapter_progress = Val(m.search).chapter_progress
               /\ Val(m.result.value).paragraph = Val(m.search).paragraph
               /\ Val(m.result.value).character_offset = Val(m.search).character_offset

\* the second search was for the middle half of the surrounding context
SecondSearchIsMiddle(m) ==
    /\ Len(m.searches) = 2
    /\ SplitWords(m.searches[2].target) = MiddleHalf(SplitWords(Val(m.sample).surrounding_context))

\* C17 as claimed: whenever the text of the span was extracted and the first
\* search finds nothing, map_kobo_position_to_epub searches again for the
\* middle half of the surrounding context before the structural mapping.
C17_AlwaysRetries ==
    ~IsNone(mapped) =>
        /\ SearchBeforeStructure(Val(mapped))
        /\ (~IsNone(Val(mapped).sample) /\ IsNone(Val(mapped).searches[1].found)) =>
               SecondSearchIsMiddle(Val(mapped))

\* C17, amended: the second search is made when the first finds nothing and
\* the surrounding context has more than 50 characters and more than 10
\* words, and is for the words from quartile 1/4 to 3/4 of that context;
\* otherwise the first search is the only one.  The structural mapping is
\* reached only when no search that was made found a position, and a
\* position a search found is what is returned.
C17_FallbackOrder ==
    ~IsNone(mapped) =>
        /\ SearchBeforeStructure(Val(mapped))
        /\ ~IsNone(Val(mapped).sample) =>
               IF IsNone(Val(mapped).searches[1].found) /\ LongContext(Val(Val(mapped).sample))
               THEN SecondSearchIsMiddle(Val(mapped))
               ELSE Len(Val(mapped).searches) = 1

\* the span word01 ... word20 is not found in an EPUB that holds word06 ...
\* word15, the second search for these ten words finds them in the second
\* file, and the position returned is that one
C17_Witness ==
    /\ ~IsNone(mapped) /\ sync_book = RetryBook
    /\ Len(Val(mapped).searches) = 2
    /\ IsNone(Val(mapped).searches[1].found)
    /\ Val(mapped).searches[2].target = Join(SubSeq(LongWords, 6, 15))
    /\ ~IsNone(Val(mapped).searches[2].found)
    /\ Val(Val(mapped).searches[2].found).chapter = 1
    /\ IsNone(Val(mapped).structural)
    /\ ~IsNone(Val(mapped).result.value)

\* both searches fail and the structural mapping gives the position
C17_BothFail ==
    /\ ~IsNone(mapped) /\ sync_book = RetryFailBook
    /\ Len(Val(mapped).searches) = 2
    /\ IsNone(Val(mapped).searches[1].found) /\ IsNone(Val(mapped).searches[2].found)
    /\ ~IsNone(Val(mapped).structural)

\* the span of eight words is not found, no second search is made though the
\* EPUB holds the middle half, and the structural mapping gives the position
C17_ShortContext ==
    /\ ~IsNone(mapped) /\ sync_book = ShortBook
    /\ ~IsNone(Val(mapped).sample)
    /\ Len(Val(mapped).searches) = 1
    /\ IsNone(Val(mapped).searches[1].found)
    /\ ~IsNone(SearchTextInEpub(ShortEpub, Join(MiddleHalf(SubSeq(LongWords, 1, 8))), TRUE))
    /\ ~IsNone(Val(mapped).structural)

\* the content-based mapping succeeded: search_text_in_epub found the text
\* and map_kobo_position_to_epub returned a position
ContentMapped ==
    /\ ~IsNone(mapped) /\ ~IsNone(Val(mapped).search)
    /\ ~IsNone(Val(mapped).result.value)

\* C21: when the content-based mapping succeeds, the chapter of the position
\* map_kobo_position_to_epub returns is the zero-based spine index of the
\* EPUB content file in which the text was matched.
C21_ChapterIsSpineIndex ==
    ContentMapped =>
        Val(Val(mapped).result.value).chapter = Val(Val(mapped).search).chapter

\* the text was matched in the file of spine index 1 and the position
\* returned is of chapter 2, the number in the title of that file
C21_ChapterInPart ==
    /\ ContentMapped
    /\ Val(Val(mapped).search).chapter = 1
    /\ Val(Val(mapped).result.value).chapter = 2
    /\ ~Val(Val(mapped).result.value).is_part_header

\* _fallback_structural_mapping was called and returned a position
StructurallyMapped == ~IsNone(mapped) /\ ~IsNone(Val(mapped).structural)

\* total_chapters of the structure analyze_epub_structure gives for the EPUB
\* of the book
EpubTotalChapters ==
    Val(AnalyzeEpubStructure(OpenZip(sync_book, Val(GetBookFiles(sync_book).epub)),
                             HAS_BEAUTIFULSOUP)).total_chapters

\* C26: the chapter of every PositionInfo _fallback_structural_mapping
\* returns is a zero-based index of the analyzed EPUB:
\* 0 <= chapter < total_chapters.
C26_StructuralChapterValid ==
    StructurallyMapped =>
        /\ 0 <= Val(Val(mapped).structural).chapter
        /\ Val(Val(mapped).structural).chapter < EpubTotalChapters

\* a structural position of chapter -1 in an EPUB that has chapters
C26_BeforeFirstChapter ==
    /\ StructurallyMapped
    /\ EpubTotalChapters > 0
    /\ Val(Val(mapped).structural).chapter = -1

\* a structural position in an EPUB without chapters
C26_NoChapters == StructurallyMapped /\ EpubTotalChapters = 0

\* a structural position whose chapter was capped at the last chapter
C26_LastChapter ==
    /\ StructurallyMapped
    /\ EpubTotalChapters > 0
    /\ Val(Val(mapped).structural).chapter = EpubTotalChapters - 1

\* the content-based mapping succeeded and the position returned is the one
\* _enhance_position_with_part_chapter made
Enhanced == ContentMapped /\ ~IsNone(Val(Val(mapped).result.value).part)

\* the EPUB of the book
EpubZip == OpenZip(sync_book, Val(GetBookFiles(sync_book).epub))

\* the manifest href of the spine item at index chapter_idx
SpineHref(opf, chapter_idx) == DictGet(opf[2], opf[1][chapter_idx + 1])

\* the file of the chapter of the structure at index chapter_idx
ChapterFile(epub_structure, chapter_idx) ==
    Val(epub_structure).chapters[chapter_idx + 1].file_path

\* C27: the index with which _enhance_position_with_part_chapter looks up
\* the classifier mapping denotes the chapter of the matched content file:
\* the chapter of the structure at the spine index search_text_in_epub
\* returned is the file at that index of the spine.
C27_SameChapterAsSpine ==
    Enhanced =>
        ChapterFile(AnalyzeEpubStructure(EpubZip, HAS_BEAUTIFULSOUP),
                    Val(Val(mapped).search).chapter)
            = SpineHref(ParseOpf(ZipRead(EpubZip, Val(FindOpfFile(EpubZip)))),
                        Val(Val(mapped).search).chapter)

\* the text was matched in the second file of the spine, which the NCX
\* titles "I", and the position returned is that of the entry "II"
C27_NextEntry ==
    /\ Enhanced
    /\ sync_book = OffsetBook
    /\ Val(Val(mapped).search).chapter = 1
    /\ Val(Val(mapped).result.value).chapter_in_part = Some(2)

\* a match enhanced with the entry of its own file: the NCX has one entry
\* for each file of the spine, in spine order
C27_AlignedToc ==
    /\ Enhanced
    /\ sync_book = Book(<<EpubRow, KepubRow>>, <<EpubFile(PartEpub), KepubFile(KepubOf)>>)
    /\ Val(Val(mapped).search).chapter = 1
    /\ Val(Val(mapped).result.value).chapter_in_part = Some(1)

\* the text of the file of spine index chapter_idx, None when there is none
\* to search
SpineText(zip, opf_path, opf, chapter_idx) ==
    LET path == SpinePath(zip, opf_path, opf[2], opf[1][chapter_idx + 1]) IN
    IF IsNone(path) THEN None
    ELSE IF ZipRead(zip, Val(path)).kind # "html" THEN None
    ELSE Some(ZipRead(zip, Val(path)).text)

\* the spine indices of the files that hold the target as a substring
ExactFiles(zip, opf_path, opf, target) ==
    {i \in 0..(Len(opf[1]) - 1) :
        /\ ~IsNone(SpineText(zip, opf_path, opf, i))
        /\ Find(Val(SpineText(zip, opf_path, opf, i)), target) # -1}

\* the spine indices of the files that do not, and in which the word
\* alignment finds the target
FuzzyFiles(zip, opf_path, opf, target) ==
    {i \in 0..(Len(opf[1]) - 1) :
        /\ ~IsNone(SpineText(zip, opf_path, opf, i))
        /\ Find(Val(SpineText(zip, opf_path, opf, i)), target) = -1
        /\ Len(target) > 20
        /\ FuzzyPosition(Val(SpineText(zip, opf_path, opf, i)),
                         SplitWords(Val(SpineText(zip, opf_path, opf, i))),
                         SplitWords(target)) # -1}

\* the search found the target in the first file of the set
FoundInFirst(search, files) ==
    /\ ~IsNone(search.found)
    /\ Val(search.found).chapter \in files
    /\ \A i \in files : Val(search.found).chapter <= i

\* the searches map_kobo_position_to_epub made in the EPUB of the book
SearchesMade == IF IsNone(mapped) THEN <<>> ELSE Val(mapped).searches

\* the package descriptor of the EPUB of the book
EpubOpfPath == Val(FindOpfFile(EpubZip))
EpubOpf == ParseOpf(ZipRead(EpubZip, EpubOpfPath))

\* C28 as stated: if the target occurs as an exact substring in some spine
\* file, search_text_in_epub returns the first spine file that holds it
\* exactly, even when an earlier file matches through the word alignment.
C28_ExactAcrossBook ==
    \A k \in 1..Len(SearchesMade) :
        ExactFiles(EpubZip, EpubOpfPath, EpubOpf, SearchesMade[k].target) # {} =>
            FoundInFirst(SearchesMade[k],
                         ExactFiles(EpubZip, EpubOpfPath, EpubOpf, SearchesMade[k].target))

\* C28 amended: if the target occurs as an exact substring in some spine
\* file, search_text_in_epub returns the first spine file that holds it
\* exactly or matches it through the word alignment; an exact match is
\* preferred to the alignment within one file only.
C28_FirstMatchingFile ==
    \A k \in 1..Len(SearchesMade) :
        ExactFiles(EpubZip, EpubOpfPath, EpubOpf, SearchesMade[k].target) # {} =>
            FoundInFirst(SearchesMade[k],
                         ExactFiles(EpubZip, EpubOpfPath, EpubOpf, SearchesMade[k].target)
                            \cup FuzzyFiles(EpubZip, EpubOpfPath, EpubOpf,
                                            SearchesMade[k].target))

\* the target is held exactly by the second file and the search returned the
\* first, where the alignment finds four of its five words
C28_Witness ==
    /\ Len(SearchesMade) >= 1
    /\ ExactFiles(EpubZip, EpubOpfPath, EpubOpf, SearchesMade[1].target) = {1}
    /\ FuzzyFiles(EpubZip, EpubOpfPath, EpubOpf, SearchesMade[1].target) = {0}
    /\ ~IsNone(SearchesMade[1].found)
    /\ Val(SearchesMade[1].found).chapter = 0

\* the target is held exactly by the second file only and by no file through
\* the alignment: the search returned the second
C28_ExactOnly ==
    /\ Len(SearchesMade) >= 1
    /\ ExactFiles(EpubZip, EpubOpfPath, EpubOpf, SearchesMade[1].target) = {1}
    /\ FuzzyFiles(EpubZip, EpubOpfPath, EpubOpf, SearchesMade[1].target) = {}
    /\ ~IsNone(SearchesMade[1].found)
    /\ Val(SearchesMade[1].found).chapter = 1

-----------------------------------------------------------------------------
(* Drive synchronisation: create_position_file,                            *)
(* check_moonreader_position_updates and                                   *)
(* update_kobo_reading_state_from_moonreader.                              *)
(*                                                                         *)
(* kobo_state is the committed row of the reading state with its bookmark  *)
(* and po_content the position file of the book in the Drive folder; the   *)
(* matching of file names in the folder is not modelled.  A datetime is    *)
(* the canonical digit string of its milliseconds, None when the column    *)
(* is empty.                                                               *)

\* a <= b for canonical digit strings
StampLeq(a, b) == Len(a) < Len(b) \/ (Len(a) = Len(b) /\ DigitsLeq(a, b))

\* mutant of CompareStamps: the comparison is < instead of <=
CompareStamps_Strict(timestamp, last_modified, naive) ==
    IF naive THEN Raise("TypeError")
    ELSE Return(StampLeq(timestamp, last_modified) /\ timestamp # last_modified)

\* moonreader_data['timestamp'] <= kobo_state.last_modified: comparing the
\* timezone-aware timestamp with a timezone-naive datetime raises TypeError
CompareStamps(timestamp, last_modified, naive) ==
    IF naive THEN Raise("TypeError") ELSE Return(StampLeq(timestamp, last_modified))

\* line 531 and what follows it: None when the record is not newer than
\* last_modified, and None when the comparison raises (line 538)
Compared(moonreader_data, comparison) ==
    IF comparison.kind = "raise" THEN None
    ELSE IF comparison.value THEN None
    ELSE Some(moonreader_data)

\* lines 529-540 of check_moonreader_position_updates: the record, or None.
\* A datetime is truthy, so line 530 asks whether last_modified is set.
NewerData_NotOlder(moonreader_data, state, naive) ==
    IF ~IsNone(state) /\ ~IsNone(Val(state).last_modified)
    THEN Compared(moonreader_data,
                  IF naive THEN Raise("TypeError")
                  ELSE Return(/\ StampLeq(moonreader_data.timestamp, Val(state).last_modified)
                              /\ moonreader_data.timestamp # Val(state).last_modified))
    ELSE Some(moonreader_data)

NewerData(moonreader_data, state, naive) ==
    IF ~IsNone(state) /\ ~IsNone(Val(state).last_modified)
    THEN Compared(moonreader_data,
                  CompareStamps(moonreader_data.timestamp, Val(state).last_modified, naive))
    ELSE Some(moonreader_data)

\* lines 521-536: the downloaded content is converted and compared
CheckDownloaded(moonreader_data, state, naive) ==
    IF IsNone(moonreader_data) THEN None
    ELSE NewerData(Val(moonreader_data), state, naive)

\* check_moonreader_position_updates: the record, or None.  drive_file is
\* what download_file_from_folder returns.
CheckMoonreaderPositionUpdates(is_authenticated, book, state, drive_file, naive, has_bs4) ==
    IF ~is_authenticated THEN None
    ELSE IF IsNone(book) THEN None
    ELSE IF IsNone(drive_file) THEN None
    ELSE CheckDownloaded(MoonreaderToKoboPosition(drive_file, book, has_bs4), state, naive)

\* lines 446-472 of create_position_file for the outcome of the conversion:
\* what it returns and the content it uploaded, if any
UploadOutcome(position_content, success) ==
    IF position_content.kind = "raise" THEN [result |-> FALSE, uploaded |-> None]
    ELSE IF ~Truthy(position_content.value) THEN [result |-> FALSE, uploaded |-> None]
    ELSE IF success THEN [result |-> TRUE, uploaded |-> position_content.value]
    ELSE [result |-> FALSE, uploaded |-> None]

\* create_position_file.  success is what upload_file_to_folder returns.
CreatePositionFile(book, kobo_reading_state, is_authenticated, success, has_bs4) ==
    IF IsNone(kobo_reading_state) \/ IsNone(Val(kobo_reading_state).current_bookmark)
    THEN [result |-> FALSE, uploaded |-> None]
    ELSE IF ~is_authenticated THEN [result |-> FALSE, uploaded |-> None]
    ELSE UploadOutcome(KoboToMoonreaderPosition(kobo_reading_state, book, has_bs4), success)

\* ub.KoboReadingState(user_id=user_id, book_id=book_id)
NewReadingState ==
    [last_modified |-> None, priority_timestamp |-> None, current_bookmark |-> None]

\* ub.KoboBookmark(kobo_reading_state_id=kobo_state.id)
NewBookmark ==
    [progress_percent |-> None, location_value |-> None, location_type |-> None,
     location_source |-> None, last_modified |-> None]

\* the statements of update_kobo_reading_state_from_moonreader that write,
\* in order: lines 563-567, 570, 571 and 573
UpdateSteps ==
    <<"progress_percent", "location_value", "location_type", "location_source",
      "bookmark.last_modified", "last_modified", "priority_timestamp", "commit">>

\* the bookmark after the assignment named step
AssignBookmark(bookmark, step, moonreader_data) ==
    IF step = "progress_percent"
    THEN [bookmark EXCEPT !.progress_percent = Some(moonreader_data.progress_percent)]
    ELSE IF step = "location_value"
    THEN [bookmark EXCEPT !.location_value = Some(moonreader_data.location_value)]
    ELSE IF step = "location_type"
    THEN [bookmark EXCEPT !.location_type = Some(moonreader_data.location_type)]
    ELSE IF step = "location_source"
    THEN [bookmark EXCEPT !.location_source = Some(moonreader_data.location_source)]
    ELSE IF step = "bookmark.last_modified"
    THEN [bookmark EXCEPT !.last_modified = moonreader_data.timestamp]
    ELSE bookmark

\* mutant of Assign: last_modified of the reading state is not assigned
Assign_KeepsLastModified(state, step, moonreader_data) ==
    IF step = "last_modified" THEN state
    ELSE IF step = "priority_timestamp"
    THEN [state EXCEPT !.priority_timestamp = moonreader_data.timestamp]
    ELSE [state EXCEPT !.current_bookmark =
              Some(AssignBookmark(Val(state.current_bookmark), step, moonreader_data))]

\* the reading state of the session after the assignment named step
Assign(state, step, moonreader_data) ==
    IF step = "last_modified" THEN [state EXCEPT !.last_modified = moonreader_data.timestamp]
    ELSE IF step = "priority_timestamp"
    THEN [state EXCEPT !.priority_timestamp = moonreader_data.timestamp]
    ELSE [state EXCEPT !.current_bookmark =
              Some(AssignBookmark(Val(state.current_bookmark), step, moonreader_data))]

\* the reading state of the session after the first n statements
RECURSIVE Assigned(_, _, _)
Assigned(state, n, moonreader_data) ==
    IF n = 0 THEN state
    ELSE Assign(Assigned(state, n - 1, moonreader_data), UpdateSteps[n], moonreader_data)

\* lines 546-559: the reading state and its bookmark, created when missing
OpenedState(stored) ==
    LET state == IF IsNone(stored) THEN NewReadingState ELSE Val(stored) IN
    IF IsNone(state.current_bookmark)
    THEN [state EXCEPT !.current_bookmark = Some(NewBookmark)] ELSE state

\* update_kobo_reading_state_from_moonreader: the committed reading state and
\* what it returns.  failed is the statement of UpdateSteps that raises, if
\* any; ub.session.rollback() discards what the session assigned.
UpdateKoboReadingStateFromMoonreader_NoRollback(stored, moonreader_data, failed) ==
    IF IsNone(failed)
    THEN [stored |-> Some(Assigned(OpenedState(stored), Len(UpdateSteps) - 1, moonreader_data)),
          result |-> TRUE]
    ELSE [stored |-> Some(Assigned(OpenedState(stored), Val(failed) - 1, moonreader_data)),
          result |-> FALSE]

UpdateKoboReadingStateFromMoonreader(stored, moonreader_data, failed) ==
    IF IsNone(failed)
    THEN [stored |-> Some(Assigned(OpenedState(stored), Len(UpdateSteps) - 1, moonreader_data)),
          result |-> TRUE]
    ELSE [stored |-> stored, result |-> FALSE]

-----------------------------------------------------------------------------
(* Inputs of the Drive synchronisation *)

MaxSyncCalls == 2   \* calls of the synchronisation functions in one behaviour

sOldStamp == <<"1","0","0","0">>
sNewStamp == <<"1","6","9","7","7","4","3","0","5","2","4","9","9">>

SyncBooks == {None, EpubBook, BothBook}

\* a reading state the Kobo device wrote at last_modified
SyncState(last_modified, bookmark) ==
    Some([last_modified |-> last_modified, priority_timestamp |-> last_modified,
          current_bookmark |->
              IF IsNone(bookmark) THEN None
              ELSE Some([progress_percent |-> Val(bookmark).progress_percent,
                         location_value |-> Val(bookmark).location_value,
                         location_type |-> Val(bookmark).location_type,
                         location_source |-> Val(bookmark).location_source,
                         last_modified |-> last_modified])])

SyncStates ==
    {None, SyncState(None, None), SyncState(sNewStamp, None),
     SyncState(sStamp, Some(Bookmark(None, None, Some(RInt(40)))))}
    \cup {SyncState(t, Some(Bookmark(Some(sLocSlash), None, Some(RInt(40))))) :
            t \in {sOldStamp, sStamp}}

\* the position file in the Drive folder: none, files of the grammar written
\* at sStamp and at sOldStamp, and files the conversion rejects
SyncFiles ==
    {None,
     Some(sStamp \o <<"*","2","@","0","#","0",":","3","0",".","0","%">>),
     Some(sOldStamp \o <<"*","0","@","0","#","0",":","0",".","0","%">>),
     Some(<<"0","0">> \o sStamp \o <<"*","1","@","0","#","0",":","5","%","x">>),
     Some(<<"1","*","2","@","3","#","4",":","1",".","2",".","3","%">>),
     Some(<<>>)}

\* the records a caller passes to update_kobo_reading_state_from_moonreader:
\* what the conversion makes of the position file
SyncRecords(moonreader_data) ==
    IF IsNone(moonreader_data) THEN {} ELSE {Val(moonreader_data)}

-----------------------------------------------------------------------------
(* Specification of the Drive synchronisation.                             *)
(*                                                                         *)
(* A behaviour starts from a book, its committed reading state and the     *)
(* position file in the Drive folder, and makes up to MaxSyncCalls calls   *)
(* of the three functions.  sync_call records the last call: the function, *)
(* what it returned, and the reading state and the position file before.   *)

InitSync ==
    /\ sync_book \in SyncBooks
    /\ HAS_BEAUTIFULSOUP = TRUE
    /\ kobo_state \in SyncStates
    /\ po_content \in SyncFiles
    /\ authenticated \in BOOLEAN
    /\ naive_stamps \in BOOLEAN
    /\ sync_call = None
    /\ encoded = None /\ decoded = None /\ mapped = None /\ trip = None
    /\ calls = 0
    /\ pc = "drive"
    /\ ClassifyIdle /\ ArchiveIdle /\ SpanIdle /\ DriveIdle /\ SearchIdle

\* create_position_file on the committed reading state
CreateFile ==
    /\ pc = "drive" /\ calls < MaxSyncCalls
    /\ \E success \in BOOLEAN :
       \E conversion \in {KoboToMoonreaderPosition(kobo_state, sync_book, HAS_BEAUTIFULSOUP)} :
       \E outcome \in {CreatePositionFile(sync_book, kobo_state, authenticated, success,
                                          HAS_BEAUTIFULSOUP)} :
           /\ po_content' = IF IsNone(outcome.uploaded) THEN po_content
                            ELSE outcome.uploaded
           /\ sync_call' = Some([op |-> "create", result |-> Some(outcome.result),
                                 state |-> kobo_state, file |-> po_content,
                                 conversion |-> Some(conversion), failed |-> None])
    /\ calls' = calls + 1
    /\ UNCHANGED <<sync_book, kobo_state, authenticated, naive_stamps, encoded, decoded,
                   mapped, trip, HAS_BEAUTIFULSOUP, pc, classifyVars, archiveVars, spanVars,
                   driveVars, searchVars>>

\* check_moonreader_position_updates; the download gives the position file
\* or fails
CheckUpdates ==
    /\ pc = "drive" /\ calls < MaxSyncCalls
    /\ \E drive_file \in {None, po_content} :
       \E outcome \in {CheckMoonreaderPositionUpdates(authenticated, sync_book, kobo_state,
                                                      drive_file, naive_stamps,
                                                      HAS_BEAUTIFULSOUP)} :
           sync_call' = Some([op |-> "check", result |-> outcome,
                              state |-> kobo_state, file |-> drive_file,
                              conversion |-> None, failed |-> None])
    /\ calls' = calls + 1
    /\ UNCHANGED <<sync_book, kobo_state, po_content, authenticated, naive_stamps, encoded,
                   decoded, mapped, trip, HAS_BEAUTIFULSOUP, pc, classifyVars, archiveVars,
                   spanVars, driveVars, searchVars>>

\* update_kobo_reading_state_from_moonreader with a record of the conversion;
\* any of its writing statements may raise
UpdateStored ==
    /\ pc = "drive" /\ calls < MaxSyncCalls
    /\ \E moonreader_data \in SyncRecords(MoonreaderToKoboPosition(po_content, sync_book,
                                                                  HAS_BEAUTIFULSOUP)) :
       \E failed \in {None} \cup {Some(n) : n \in DOMAIN UpdateSteps} :
       \E outcome \in {UpdateKoboReadingStateFromMoonreader(kobo_state, moonreader_data,
                                                            failed)} :
           /\ kobo_state' = outcome.stored
           /\ sync_call' = Some([op |-> "update", result |-> Some(outcome.result),
                                 state |-> kobo_state, file |-> po_content,
                                 conversion |-> None, failed |-> failed])
    /\ calls' = calls + 1
    /\ UNCHANGED <<sync_book, po_content, authenticated, naive_stamps, encoded, decoded,
                   mapped, trip, HAS_BEAUTIFULSOUP, pc, classifyVars, archiveVars, spanVars,
                   driveVars, searchVars>>

NextSync == CreateFile \/ CheckUpdates \/ UpdateStored

SpecSync == InitSync /\ [][NextSync]_vars

-----------------------------------------------------------------------------
(* Properties of the Drive synchronisation *)

\* the last call was of the function op
Called(op) == ~IsNone(sync_call) /\ Val(sync_call).op = op

\* the conversion of create_position_file gave no string
ConversionFailed ==
    /\ ~IsNone(Val(sync_call).conversion)
    /\ \/ Val(Val(sync_call).conversion).kind = "raise"
       \/ ~Truthy(Val(Val(sync_call).conversion).value)

\* C14: a failed conversion only skips the synchronisation attempt: when
\* kobo_to_moonreader_position gives no string or raises, create_position_file
\* returns False and the position file in the Drive folder is as before;
\* when moonreader_to_kobo_position rejects the downloaded content,
\* check_moonreader_position_updates returns None and the stored reading
\* state is as before; when a statement of
\* update_kobo_reading_state_from_moonreader raises, it returns False and the
\* stored reading state is as before.
C14_FailedConversionSkips ==
    /\ (Called("create") /\ ConversionFailed) =>
           /\ Val(sync_call).result = Some(FALSE)
           /\ po_content = Val(sync_call).file
    /\ (/\ Called("check") /\ ~IsNone(Val(sync_call).file)
        /\ IsNone(MoonreaderToKoboPosition(Val(sync_call).file, sync_book,
                                           HAS_BEAUTIFULSOUP))) =>
           /\ IsNone(Val(sync_call).result)
           /\ kobo_state = Val(sync_call).state
    /\ (Called("update") /\ ~IsNone(Val(sync_call).failed)) =>
           /\ Val(sync_call).result = Some(FALSE)
           /\ kobo_state = Val(sync_call).state

\* the assignment of priority_timestamp raised after six assignments were
\* made on a stored reading state older than the record: nothing of them is
\* stored
C14_Witness ==
    /\ Called("update")
    /\ Val(sync_call).failed = Some(Len(UpdateSteps) - 1)
    /\ ~IsNone(Val(sync_call).state)
    /\ Val(Val(sync_call).state).last_modified = sOldStamp
    /\ ~IsNone(Val(Val(sync_call).state).current_bookmark)
    /\ kobo_state = Val(sync_call).state

\* the timestamp group of a position file the conversion accepts
FileStamp(content) == Canonical(Val(MatchWire(Strip(Val(content))))[1])

\* C16: check_moonreader_position_updates returns a record only if the
\* timestamp of the position file is strictly newer than last_modified of
\* the stored reading state, or there is no reading state with a timestamp.
C16_OnlyNewerFileUpdates ==
    (Called("check") /\ ~IsNone(Val(sync_call).result)) =>
        \/ IsNone(Val(sync_call).state)
        \/ IsNone(Val(Val(sync_call).state).last_modified)
        \/ ~StampLeq(FileStamp(Val(sync_call).file), Val(Val(sync_call).state).last_modified)

\* the position file written at 1697743052498 ms is accepted and the stored
\* reading state has the same timestamp: no record is returned
C16_Witness ==
    /\ Called("check")
    /\ ~naive_stamps /\ authenticated
    /\ ~IsNone(Val(sync_call).file)
    /\ ~IsNone(MoonreaderToKoboPosition(Val(sync_call).file, sync_book, HAS_BEAUTIFULSOUP))
    /\ FileStamp(Val(sync_call).file) = sStamp
    /\ ~IsNone(Val(sync_call).state)
    /\ Val(Val(sync_call).state).last_modified = sStamp
    /\ IsNone(Val(sync_call).result)

\* the position file is the string kobo_to_moonreader_position makes of the
\* reading state, which is what create_position_file uploads for it
WrittenFrom(file, state) ==
    LET conversion == KoboToMoonreaderPosition(state, sync_book, HAS_BEAUTIFULSOUP) IN
    /\ conversion.kind = "return"
    /\ Truthy(conversion.value)
    /\ conversion.value = file

\* C24: no echo.  When check_moonreader_position_updates downloads a position
\* file that is the one create_position_file writes from the reading state it
\* compares with, it returns no record.
C24_NoEcho ==
    (/\ Called("check") /\ ~IsNone(Val(sync_call).file)
     /\ WrittenFrom(Val(sync_call).file, Val(sync_call).state)) =>
        IsNone(Val(sync_call).result)

\* a file that create_position_file uploaded in this behaviour (it is none
\* of the initial files) was downloaded, converted and compared with the
\* timezone-aware timestamp of the state it was written from
C24_Witness ==
    /\ Called("check") /\ authenticated /\ ~naive_stamps
    /\ ~IsNone(Val(sync_call).file)
    /\ Val(sync_call).file \notin SyncFiles
    /\ WrittenFrom(Val(sync_call).file, Val(sync_call).state)
    /\ ~IsNone(MoonreaderToKoboPosition(Val(sync_call).file, sync_book, HAS_BEAUTIFULSOUP))
    /\ FileStamp(Val(sync_call).file) = Val(Val(sync_call).state).last_modified
    /\ IsNone(Val(sync_call).result)

\* update_kobo_reading_state_from_moonreader committed
Committed == Called("update") /\ Val(sync_call).result = Some(TRUE)

\* the reading state has last_modified and it is the timestamp of the
\* position file
StampedAs(state, file) ==
    /\ ~IsNone(state) /\ ~IsNone(Val(state).last_modified)
    /\ ~IsNone(file)
    /\ ~IsNone(MoonreaderToKoboPosition(file, sync_book, HAS_BEAUTIFULSOUP))
    /\ Val(state).last_modified = FileStamp(file)

\* C25: after update_kobo_reading_state_from_moonreader has committed the
\* record of a position file, last_modified of the stored reading state is
\* the timestamp of the file, and check_moonreader_position_updates on a
\* reading state with the timestamp of the file it downloads returns no
\* record.
C25_AppliedOnce ==
    /\ Committed => StampedAs(kobo_state, Val(sync_call).file)
    /\ (Called("check") /\ StampedAs(Val(sync_call).state, Val(sync_call).file)) =>
           IsNone(Val(sync_call).result)

\* the check after a committed update: the bookmark of the reading state is
\* the one the update wrote (its location source is that of the record) and
\* the file downloaded is the one it was written from
C25_Witness ==
    /\ Called("check") /\ authenticated /\ ~naive_stamps /\ ~IsNone(sync_book)
    /\ StampedAs(Val(sync_call).state, Val(sync_call).file)
    /\ ~IsNone(Val(Val(sync_call).state).current_bookmark)
    /\ Val(Val(Val(sync_call).state).current_bookmark).location_source =
           Some(Val(MoonreaderToKoboPosition(Val(sync_call).file, sync_book,
                                             HAS_BEAUTIFULSOUP)).location_source)
    /\ Val(Val(Val(sync_call).state).current_bookmark).location_source
           \notin {Val(st).current_bookmark[1].location_source :
                      st \in {t \in SyncStates : ~IsNone(t) /\ ~IsNone(Val(t).current_bookmark)}}
    /\ IsNone(Val(sync_call).result)

-----------------------------------------------------------------------------
(* Text search in one chapter file: _search_text_in_html                   *)
(*                                                                         *)
(* The chapter text is up to MaxSearchWords words, the k-th being either   *)
(* the k-th word of the target or a word the target does not hold; the     *)
(* target is the first n words word01 .. word0n, as they are or with a     *)
(* letter appended to the last.  Three words make 20 characters, three     *)
(* words and the letter 21.                                                *)

MaxSearchWords == 5   \* most words of a chapter text and of a target

tForeign == <<"x">>
tSuffix == <<"s">>

\* the chapter text that holds the k-th target word exactly for k in kept
SearchWordsOf(n, kept) == [k \in 1..n |-> IF k \in kept THEN LongWords[k] ELSE tForeign]

SearchTexts ==
    {TextDoc(Join(SearchWordsOf(n, kept))) : n \in {MaxSearchWords},
                                              kept \in SUBSET (1..MaxSearchWords)}

SearchTargets ==
    {Join(SubSeq(LongWords, 1, n)) \o suffix : n \in 1..MaxSearchWords,
                                               suffix \in {<<>>, tSuffix}}

InitSearch ==
    /\ search_html \in {Some(t) : t \in SearchTexts}
    /\ search_target \in {Some(t) : t \in SearchTargets}
    /\ search_result = None
    /\ HAS_BEAUTIFULSOUP = TRUE
    /\ pc = "search"
    /\ ClassifyIdle /\ ArchiveIdle /\ SpanIdle /\ CodecIdle /\ SyncIdle /\ DriveIdle

\* _search_text_in_html on the chapter text and the target
SearchHtml ==
    /\ pc = "search"
    /\ search_result' = Some(SearchTextInHtml(Val(search_html), Val(search_target)))
    /\ pc' = "searched"
    /\ UNCHANGED <<search_html, search_target, HAS_BEAUTIFULSOUP, classifyVars, archiveVars,
                   spanVars, codecVars, syncVars, driveVars>>

NextSearch == SearchHtml

SpecSearch == InitSearch /\ [][NextSearch]_vars

-----------------------------------------------------------------------------
(* Properties of the text search *)

Searched == pc = "searched" /\ ~IsNone(search_result)

\* the exact substring search found nothing
ExactFails == Find(Val(search_html).text, Val(search_target)) = -1

\* the words the longest common block of words covers, and the target's
AlignedWords ==
    FindLongestMatch(SplitWords(Val(search_html).text), SplitWords(Val(search_target))).size
TargetWords == Len(SplitWords(Val(search_target)))

\* the search gave the position p
FoundAt(p) == ~IsNone(Val(search_result)) /\ Val(Val(search_result)).position = p

\* the search gave the start of the longest common block of words
FoundAligned ==
    LET words == SplitWords(Val(search_html).text)
        match == FindLongestMatch(words, SplitWords(Val(search_target)))
    IN  FoundAt(Find(Val(search_html).text,
                     Join(SubSeq(words, match.a, match.a + match.size - 1))))

\* C20: the word alignment is tried only when the exact search fails and the
\* target is longer than 20 characters (an exact match is returned as it is,
\* and a target of at most 20 characters that is not found gives None); it
\* is accepted when the matched words are at least 60% of the target's
\* words and rejected when they are fewer.
C20_AtLeastSixtyPercent ==
    Searched =>
        /\ ~ExactFails => FoundAt(Find(Val(search_html).text, Val(search_target)))
        /\ (ExactFails /\ Len(Val(search_target)) <= 20) => IsNone(Val(search_result))
        /\ (ExactFails /\ Len(Val(search_target)) > 20
              /\ 10 * AlignedWords >= 6 * TargetWords) => FoundAligned
        /\ (ExactFails /\ Len(Val(search_target)) > 20
              /\ 10 * AlignedWords < 6 * TargetWords) => IsNone(Val(search_result))

\* the same with the alignment accepted only above 60% of the target's words
C20_AboveSixtyPercent ==
    Searched =>
        /\ ~ExactFails => FoundAt(Find(Val(search_html).text, Val(search_target)))
        /\ (ExactFails /\ Len(Val(search_target)) <= 20) => IsNone(Val(search_result))
        /\ (ExactFails /\ Len(Val(search_target)) > 20
              /\ 10 * AlignedWords > 6 * TargetWords) => FoundAligned
        /\ (ExactFails /\ Len(Val(search_target)) > 20
              /\ 10 * AlignedWords <= 6 * TargetWords) => IsNone(Val(search_result))

\* an alignment of exactly 60% of the words of a target of more than 20
\* characters
C20_ExactlySixtyPercent ==
    /\ Searched /\ ExactFails /\ Len(Val(search_target)) > 20
    /\ 10 * AlignedWords = 6 * TargetWords

\* a target of 20 characters that is not found, two of its three words
\* being in the text
C20_TwentyCharacters ==
    /\ Searched /\ ExactFails /\ Len(Val(search_target)) = 20 /\ AlignedWords = 2

\* a target of 21 characters found by the alignment
C20_TwentyOneCharacters ==
    /\ Searched /\ ExactFails /\ Len(Val(search_target)) = 21 /\ FoundAligned


-----------------------------------------------------------------------------
(* Google Drive of the user: UserGdriveAuth                                *)
(*                                                                         *)
(* drive_store holds the folders of the Drive, each named by its path from *)
(* the root, and its files in the order a listing returns them.  A request *)
(* to the Drive may raise; every method catches it.                        *)

MaxDriveCalls == 2   \* calls made on the Google Drive in one behaviour

sDefaultFolder ==
    <<"/","A","p","p","s","/","B","o","o","k","s","/",".","M","o","o","n","+","/",
      "C","a","c","h","e">>
sEpubPo == <<".","e","p","u","b",".","p","o">>
sStarEpubPo == <<"*">> \o sEpubPo
sAuthorSep == <<" ","-"," ">>

\* [p for p in path.split('/') if p]
PathParts(path) == SelectSeq(Split(path, "/"), LAMBDA p : p # <<>>)

\* the loop of get_folder_by_path from the path part k on; current is the
\* folder reached.  failed is the part whose query or creation raises, 0
\* when none does.
RECURSIVE WalkFolders(_, _, _, _, _)
WalkFolders(store, current, path_parts, k, failed) ==
    IF k = failed THEN [store |-> store, result |-> None]
    ELSE IF k > Len(path_parts) THEN [store |-> store, result |-> Some(current)]
    ELSE IF Append(current, path_parts[k]) \in store.folders
    THEN WalkFolders(store, Append(current, path_parts[k]), path_parts, k + 1, failed)
    ELSE WalkFolders([store EXCEPT !.folders = @ \cup {Append(current, path_parts[k])}],
                     Append(current, path_parts[k]), path_parts, k + 1, failed)

\* get_folder_by_path: the Drive after the call and the folder, or None.
\* connected is whether get_authenticated_drive gives a drive.
GetFolderByPath(store, connected, path, failed) ==
    IF ~connected THEN [store |-> store, result |-> None]
    ELSE WalkFolders(store, <<>>, PathParts(path), 1,
                     IF failed > Len(PathParts(path)) THEN 0 ELSE failed)

\* pattern.replace('*', '').replace('.', '\\.')
RECURSIVE SearchTerm(_)
SearchTerm(pattern) ==
    IF pattern = <<>> THEN <<>>
    ELSE (IF Head(pattern) = "*" THEN <<>>
          ELSE IF Head(pattern) = "." THEN <<"\\", ".">>
          ELSE <<Head(pattern)>>) \o SearchTerm(Tail(pattern))

\* the title filter list_files_in_folder adds to its query
TitleMatches(title, pattern) ==
    IF ~Truthy(pattern) THEN TRUE
    ELSE IF StartsWith(Val(pattern), <<"*">>) /\ EndsWith(Val(pattern), sEpubPo)
    THEN Contains(title, sEpubPo)
    ELSE Contains(title, SearchTerm(Val(pattern)))

\* the files of the folder the query of list_files_in_folder selects
FilesListed(store, folder_id, pattern) ==
    SelectSeq(store.files,
              LAMBDA f : f.folder = folder_id /\ TitleMatches(f.title, pattern))

\* list_files_in_folder once get_folder_by_path has returned
ListInFolder(found, pattern, failed) ==
    IF IsNone(found.result) THEN [store |-> found.store, result |-> <<>>]
    ELSE IF failed THEN [store |-> found.store, result |-> <<>>]
    ELSE [store |-> found.store,
          result |-> FilesListed(found.store, Val(found.result), pattern)]

\* list_files_in_folder: the Drive after the call and the files listed.
\* failed is the request that raises: a part of the path, or the listing
\* when it is beyond the parts.
ListFilesInFolder(store, connected, folder_path, pattern, failed) ==
    ListInFolder(GetFolderByPath(store, connected, folder_path, failed), pattern,
                 failed > Len(PathParts(folder_path)))

\* the files of the folder with the title filename
FilesTitled(store, folder_id, filename) ==
    SelectSeq(store.files, LAMBDA f : f.folder = folder_id /\ f.title = filename)

\* download_file_from_folder once get_folder_by_path has returned
DownloadInFolder(found, filename, failed) ==
    IF IsNone(found.result) THEN [store |-> found.store, result |-> None]
    ELSE IF failed THEN [store |-> found.store, result |-> None]
    ELSE IF FilesTitled(found.store, Val(found.result), filename) = <<>>
    THEN [store |-> found.store, result |-> None]
    ELSE [store |-> found.store,
          result |-> Some(FilesTitled(found.store, Val(found.result), filename)[1])]

\* download_file_from_folder: the Drive after the call and the file, or None
DownloadFileFromFolder(store, connected, filename, folder_path, failed) ==
    DownloadInFolder(GetFolderByPath(store, connected, folder_path, failed), filename,
                     failed > Len(PathParts(folder_path)))

\* the files after SetContentFile and Upload on the first file of the folder
\* with the title filename, or on a new file
FilesUploaded(files, folder_id, filename, content) ==
    IF \E i \in 1..Len(files) : files[i].folder = folder_id /\ files[i].title = filename
    THEN LET first == CHOOSE i \in 1..Len(files) :
                          /\ files[i].folder = folder_id /\ files[i].title = filename
                          /\ \A j \in 1..(i - 1) :
                                 ~(files[j].folder = folder_id /\ files[j].title = filename)
         IN  [files EXCEPT ![first].content = content]
    ELSE Append(files, [folder |-> folder_id, title |-> filename, content |-> content])

\* upload_file_to_folder once get_folder_by_path has returned
UploadInFolder(found, content, filename, failed) ==
    IF IsNone(found.result) THEN [store |-> found.store, result |-> FALSE]
    ELSE IF failed THEN [store |-> found.store, result |-> FALSE]
    ELSE [store |-> [found.store EXCEPT
                        !.files = FilesUploaded(@, Val(found.result), filename, content)],
          result |-> TRUE]

\* upload_file_to_folder: the Drive after the call and the success flag
UploadFileToFolder(store, connected, content, filename, folder_path, failed) ==
    UploadInFolder(GetFolderByPath(store, connected, folder_path, failed), content,
                   filename, failed > Len(PathParts(folder_path)))

\* the first of the filenames that contains the sanitized title, if any
FuzzyMatch(existing_filenames, sanitized_lower) ==
    LET hits == {i \in 1..Len(existing_filenames) :
                    /\ Contains(Lower(existing_filenames[i]), sanitized_lower)
                    /\ EndsWith(Lower(existing_filenames[i]), sEpubPo)}
    IN  IF hits = {} THEN None
        ELSE Some(existing_filenames[CHOOSE i \in hits : \A j \in hits : i <= j])

\* the title part of a filename: without .epub.po and without the author
FileTitle(filename) ==
    LET file_title == SubSeq(filename, 1, Len(filename) - 8)
    IN  IF Contains(file_title, sAuthorSep)
        THEN SubSeq(file_title, 1, Find(file_title, sAuthorSep))
        ELSE file_title

\* the first of the filenames whose title part is in the sanitized title
ReverseFuzzyMatch(existing_filenames, sanitized_lower) ==
    LET hits == {i \in 1..Len(existing_filenames) :
                    /\ EndsWith(existing_filenames[i], sEpubPo)
                    /\ Lower(FileTitle(existing_filenames[i])) # <<>>
                    /\ Contains(sanitized_lower, Lower(FileTitle(existing_filenames[i])))}
    IN  IF hits = {} THEN None
        ELSE Some(existing_filenames[CHOOSE i \in hits : \A j \in hits : i <= j])

\* find_existing_moonreader_file on the files list_files_in_folder gave; the
\* books of the model have a title and no authors
FindExistingMoonreaderFile(book, existing_files) ==
    LET existing_filenames == [i \in 1..Len(existing_files) |-> existing_files[i].title]
        sanitized_title == SanitizeFilename(Val(book).title)
    IN  IF existing_files = <<>> THEN None
        ELSE IF \E i \in 1..Len(existing_filenames) :
                    existing_filenames[i] = sanitized_title \o sEpubPo
        THEN Some(sanitized_title \o sEpubPo)
        ELSE IF ~IsNone(FuzzyMatch(existing_filenames, Lower(sanitized_title)))
        THEN FuzzyMatch(existing_filenames, Lower(sanitized_title))
        ELSE ReverseFuzzyMatch(existing_filenames, Lower(sanitized_title))

\* get_moonreader_filename on the files list_files_in_folder gave
GetMoonreaderFilename(book, existing_files) ==
    IF Truthy(FindExistingMoonreaderFile(book, existing_files))
    THEN Val(FindExistingMoonreaderFile(book, existing_files))
    ELSE SanitizeFilename(Val(book).title) \o sEpubPo

\* credentials_record.folder_name or "/Apps/Books/.Moon+/Cache"
SyncFolderPath(configured) ==
    IF Truthy(configured) THEN Val(configured) ELSE sDefaultFolder

\* lines 516-519 of check_moonreader_position_updates: the download of the
\* file get_moonreader_filename named
DownloadNamed(listed, connected, book, folder_path, failed) ==
    DownloadFileFromFolder(listed.store, connected,
                           GetMoonreaderFilename(book, listed.result), folder_path, failed)

\* lines 494-519 of check_moonreader_position_updates: the Drive after the
\* call and the position file downloaded, or None
PositionFileOf(store, is_authenticated, connected, book, configured, failed_list, failed_download) ==
    IF ~is_authenticated THEN [store |-> store, result |-> None]
    ELSE IF IsNone(book) THEN [store |-> store, result |-> None]
    ELSE DownloadNamed(ListFilesInFolder(store, connected, SyncFolderPath(configured),
                                         Some(sStarEpubPo), failed_list),
                       connected, book, SyncFolderPath(configured), failed_download)

\* the content of the position file downloaded, or None
ContentOf(drive_file) ==
    IF IsNone(drive_file) THEN None ELSE Some(Val(drive_file).content)

-----------------------------------------------------------------------------
(* Inputs of the Google Drive *)

sApps == <<"A","p","p","s">>
sBooks == <<"B","o","o","k","s">>
sMoonPlus == <<".","M","o","o","n","+">>
sCache == <<"C","a","c","h","e">>
sMoon == <<"M","o","o","n">>

\* the folders of the default path, the first n of them
DefaultFolders(n) == {SubSeq(<<sApps, sBooks, sMoonPlus, sCache>>, 1, k) : k \in 1..n}

DriveFolders == {DefaultFolders(n) : n \in {0, 2, 4}} \cup {DefaultFolders(4) \cup {<<sMoon>>}}

\* position files a folder may hold: that of the book, one Moon+ Reader named
\* with the author, and one of another book
sOwnFile == SanitizeFilename(sBookTitle) \o sEpubPo
sAuthorFile == <<"t","_","1"," ","-"," ","A","n","n">> \o sEpubPo
sOtherFile == <<"O","t","h","e","r">> \o sEpubPo

PositionFile(folder, title) ==
    [folder |-> folder, title |-> title,
     content |-> sStamp \o <<"*","2","@","0","#","0",":","3","0",".","0","%">>]

DriveFiles(folders) ==
    {<<>>} \cup
    UNION {{<<PositionFile(folder, sOwnFile)>>,
            <<PositionFile(folder, sOtherFile), PositionFile(folder, sAuthorFile)>>} :
           folder \in {f \in folders : f \in {<<sMoon>>, <<sApps, sBooks, sMoonPlus, sCache>>}}}

DriveStores ==
    UNION {{[folders |-> folders, files |-> files] : files \in DriveFiles(folders)} :
           folders \in DriveFolders}

FolderNames == {None, Some(<<>>), Some(<<"/">> \o sMoon), Some(sMoon \o <<"/","/">> \o sCache \o <<"/">>)}

\* the request of a call that raises: none (0), the first or the third part
\* of the path, or the query after the four parts of the default path
Failures == {0, 1, 3, 5}

-----------------------------------------------------------------------------
(* Specification of the Google Drive.                                      *)
(*                                                                         *)
(* A behaviour starts from a Drive, a book and the configured folder name, *)
(* and makes up to MaxDriveCalls calls.  drive_call records the last call: *)
(* the function, what it returned and the Drive before it.                 *)

InitDrive ==
    /\ drive_store \in {Some(store) : store \in DriveStores}
    /\ folder_name \in FolderNames
    /\ drive_call = None
    /\ authenticated \in BOOLEAN
    /\ sync_book \in {None, EpubBook}
    /\ HAS_BEAUTIFULSOUP = TRUE
    /\ kobo_state = None /\ po_content = None
    /\ naive_stamps = FALSE /\ sync_call = None
    /\ encoded = None /\ decoded = None /\ mapped = None /\ trip = None
    /\ calls = 0
    /\ pc = "gdrive"
    /\ ClassifyIdle /\ ArchiveIdle /\ SpanIdle /\ SearchIdle

\* whether get_authenticated_drive gives a drive: never without credentials
Connections == IF authenticated THEN BOOLEAN ELSE {FALSE}

DriveStep(op, outcome, result) ==
    /\ drive_store' = Some(outcome.store)
    /\ drive_call' = Some([op |-> op, before |-> Val(drive_store), result |-> result])
    /\ calls' = calls + 1
    /\ UNCHANGED <<folder_name, authenticated, sync_book, kobo_state, po_content,
                   naive_stamps, sync_call, encoded, decoded, mapped, trip,
                   HAS_BEAUTIFULSOUP, pc, classifyVars, archiveVars, spanVars, searchVars>>

\* list_files_in_folder on the sync folder
ListFiles ==
    /\ pc = "gdrive" /\ calls < MaxDriveCalls
    /\ \E connected \in Connections : \E failed \in Failures :
       \E pattern \in {None, Some(sStarEpubPo), Some(<<"*",".","p","o">>)} :
       \E outcome \in {ListFilesInFolder(Val(drive_store), connected,
                                         SyncFolderPath(folder_name), pattern, failed)} :
           DriveStep("list", outcome, Some(outcome.result))

\* download_file_from_folder of a position file from the sync folder
DownloadFile ==
    /\ pc = "gdrive" /\ calls < MaxDriveCalls
    /\ \E connected \in Connections : \E failed \in Failures :
       \E filename \in {sOwnFile, sAuthorFile} :
       \E outcome \in {DownloadFileFromFolder(Val(drive_store), connected, filename,
                                              SyncFolderPath(folder_name), failed)} :
           DriveStep("download", outcome, outcome.result)

\* upload_file_to_folder of a position file to the sync folder
UploadFile ==
    /\ pc = "gdrive" /\ calls < MaxDriveCalls
    /\ \E connected \in Connections : \E failed \in Failures :
       \E filename \in {sOwnFile, sAuthorFile} :
       \E outcome \in {UploadFileToFolder(Val(drive_store), connected,
                                          sOldStamp \o <<"*","0","@","0","#","0",":","0",".","0","%">>,
                                          filename, SyncFolderPath(folder_name), failed)} :
           DriveStep("upload", outcome, Some(outcome.result))

\* check_moonreader_position_updates: the position file is looked for and
\* downloaded, then converted and compared
CheckPosition ==
    /\ pc = "gdrive" /\ calls < MaxDriveCalls
    /\ \E connected \in Connections :
       \E failed_list \in Failures : \E failed_download \in Failures :
       \E outcome \in {PositionFileOf(Val(drive_store), authenticated, connected, sync_book,
                                      folder_name, failed_list, failed_download)} :
           DriveStep("check", outcome,
                     CheckMoonreaderPositionUpdates(authenticated, sync_book, kobo_state,
                                                    ContentOf(outcome.result),
                                                    naive_stamps, HAS_BEAUTIFULSOUP))

NextDrive == ListFiles \/ DownloadFile \/ UploadFile \/ CheckPosition

SpecDrive == InitDrive /\ [][NextDrive]_vars

-----------------------------------------------------------------------------
(* Properties of the Google Drive *)

\* the last call on the Drive was of the function op
DriveCalled(op) == ~IsNone(drive_call) /\ Val(drive_call).op = op

\* the folders of the sync folder path
SyncFolders ==
    {SubSeq(PathParts(SyncFolderPath(folder_name)), 1, k) :
        k \in 1..Len(PathParts(SyncFolderPath(folder_name)))}

\* C30: check_moonreader_position_updates is read-only with respect to the
\* remote storage: after the call the Drive holds the folders and the files
\* it held before, also when the sync folder path did not exist.
C30_ReadOnly ==
    DriveCalled("check") => Val(drive_store) = Val(drive_call).before

\* the same when every folder of the sync folder path existed before the call
C30_ExistingPath ==
    (DriveCalled("check") /\ SyncFolders \subseteq Val(drive_call).before.folders) =>
        Val(drive_store) = Val(drive_call).before

\* the call changes no file, and adds only folders of the sync folder path
C30_OnlyPathFolders ==
    DriveCalled("check") =>
        /\ Val(drive_store).files = Val(drive_call).before.files
        /\ Val(drive_call).before.folders \subseteq Val(drive_store).folders
        /\ Val(drive_store).folders \ Val(drive_call).before.folders \subseteq SyncFolders

\* a check that found no sync folder and left the folders of its path behind
C30_FoldersCreated ==
    /\ DriveCalled("check")
    /\ IsNone(Val(drive_call).result)
    /\ ~(SyncFolders \subseteq Val(drive_call).before.folders)
    /\ SyncFolders \subseteq Val(drive_store).folders

\* a check of an existing sync folder that gave the record of the file
C30_FileRead ==
    /\ DriveCalled("check")
    /\ ~IsNone(Val(drive_call).result)
    /\ Val(drive_store) = Val(drive_call).before

====
